---- MODULE Spec2Model ----
(***************************************************************************)
(* Planet Wars: the simulation core (game/game_state.py), its entities     *)
(* (game/entities.py), abilities (game/abilities.py), the opponent          *)
(* (game/ai/simple_ai.py) and the click handler (game/input_handler.py).   *)
(*                                                                         *)
(* Units.  The code counts time in float seconds and positions in float    *)
(* pixels.  Here time is counted in ticks of 1/TicksPerSec second and a    *)
(* fleet's position in sub-pixels of 1/TicksPerSec pixel, so that          *)
(* x += velocity * dt and timer -= 1.0 / rate are exact integer            *)
(* operations for every rate 1..8 that divides TicksPerSec.  Planets of    *)
(* the maps below lie on one horizontal line, which makes every            *)
(* math.sqrt of the code an exact integer.                                 *)
(***************************************************************************)
EXTENDS Integers, Sequences, FiniteSets, TLC

TicksPerSec == 24

\* Bounds of the model (not program constants).
MaxTicks == 2
MaxCommands == 2
MaxArrivals == 1
MaxCalls == 3
MaxEndTicks == 1
MaxUpdates == 6

\* Program constants.
base_speed == 200
arrival_distance == 5
surge_duration == 10
shield_duration == 15
base_score == 100
start_ships == 50
lost_planet_penalty == 10
lost_battle_penalty == 5
threat_distance == 300
threat_ship_limit == 50
ability_check_interval == 5

None == 0
Sides == {"Player", "Enemy"}
Kinds == {"recall", "production", "shield"}
Difficulties == {"easy", "medium", "hard"}

Abs(n) == IF n < 0 THEN -n ELSE n
Min(a, b) == IF a < b THEN a ELSE b
Max(a, b) == IF a > b THEN a ELSE b
Sq(n) == n * n

\* The one value of a singleton: an expression evaluated once, as Python
\* evaluates an argument or an assignment once.
Only(S) == CHOOSE x \in S : TRUE

\* sqrt(dx^2 + dy^2) < r, without squaring a coordinate larger than r.
Within(dx, dy, r) ==
    /\ Abs(dx) < r
    /\ Abs(dy) < r
    /\ Sq(dx) + Sq(dy) < Sq(r)

\* math.sqrt on the perfect squares the maps produce; the floor elsewhere.
Sqrt(n) == CHOOSE k \in 0..2000 : Sq(k) <= n /\ n < Sq(k + 1)

\* BaseAI.get_distance between two planets (pixels).
Distance(x1, y1, x2, y2) ==
    IF y1 = y2 THEN Abs(x1 - x2)
    ELSE IF x1 = x2 THEN Abs(y1 - y2)
    ELSE Sqrt(Sq(x1 - x2) + Sq(y1 - y2))

(***************************************************************************)
(* Abilities (game/abilities.py)                                           *)
(***************************************************************************)
Ability(duration) ==
    [available |-> TRUE, active |-> FALSE, duration |-> duration,
     time_remaining |-> 0, target |-> None]

RecallAbility == Ability(0)
ProductionSurgeAbility == Ability(surge_duration * TicksPerSec)
ShieldGeneratorAbility == Ability(shield_duration * TicksPerSec)

AbilitySet ==
    [recall |-> RecallAbility, production |-> ProductionSurgeAbility,
     shield |-> ShieldGeneratorAbility]

\* The value activate() returns.
CanActivate(a) == a.available /\ ~a.active

\* An activation that only asks whether the ability is running.
ActivateWhenIdle(a, target) ==
    IF ~a.active
    THEN [a EXCEPT !.available = FALSE, !.active = TRUE,
                   !.time_remaining = a.duration, !.target = target]
    ELSE a

\* Ability.activate: the ability after the call.
Activate(a, target) ==
    IF a.available /\ ~a.active
    THEN [a EXCEPT !.available = FALSE, !.active = TRUE,
                   !.time_remaining = a.duration, !.target = target]
    ELSE a

\* An update that lets the ability run until its time is below 0.
AbilityUpdateLate(a, dt) ==
    IF a.active /\ a.duration > 0
    THEN IF a.time_remaining - dt < 0
         THEN [a EXCEPT !.active = FALSE, !.time_remaining = 0, !.target = None]
         ELSE [a EXCEPT !.time_remaining = @ - dt]
    ELSE a

\* Ability.update
AbilityUpdate(a, dt) ==
    IF a.active /\ a.duration > 0
    THEN IF a.time_remaining - dt <= 0
         THEN [a EXCEPT !.active = FALSE, !.time_remaining = 0, !.target = None]
         ELSE [a EXCEPT !.time_remaining = @ - dt]
    ELSE a

UpdateAbilities(abilities, dt) ==
    [k \in Kinds |-> AbilityUpdate(abilities[k], dt)]

(***************************************************************************)
(* Entities (game/entities.py)                                             *)
(***************************************************************************)
\* Planet.__init__: round(1 + ratio * 3) with Python's round-half-to-even;
\* 1 + 3 * (radius - 20) / 50 is a half exactly at radius 45 (2.5 -> 2).
ProductionRate(radius) ==
    LET num == 50 + 3 * (radius - 20)      \* value = num / 50
        fl == num \div 50
        rem == num % 50
    IN  IF rem < 25 THEN fl
        ELSE IF rem > 25 THEN fl + 1
        ELSE IF fl % 2 = 0 THEN fl ELSE fl + 1

Planet(x, y, radius, owner, ship_count) ==
    [x |-> x, y |-> y, radius |-> radius, owner |-> owner,
     ship_count |-> ship_count, production_rate |-> ProductionRate(radius),
     production_timer |-> 0]

\* Planet.update with the rate update() has set for this tick.
PlanetUpdate(p, dt) ==
    IF p.owner # "Neutral"
    THEN LET timer == p.production_timer + dt
             time_per_ship == TicksPerSec \div p.production_rate
         IN  IF timer >= time_per_ship
             THEN [p EXCEPT !.ship_count = @ + 1,
                            !.production_timer = timer - time_per_ship]
             ELSE [p EXCEPT !.production_timer = timer]
    ELSE p

\* Ship.__init__: a fleet at its start planet, flying at base_speed.
Ship(planets, source, target, owner, fleet_size) ==
    LET s == planets[source]
        t == planets[target]
        dx == t.x - s.x
        dy == t.y - s.y
        distance == Distance(s.x, s.y, t.x, t.y)
    IN  [x |-> s.x * TicksPerSec, y |-> s.y * TicksPerSec,
         target_x |-> t.x, target_y |-> t.y,
         source_planet |-> source, target_planet |-> target,
         owner |-> owner, fleet_size |-> fleet_size,
         velocity_x |-> IF distance > 0 THEN (dx * base_speed) \div distance ELSE 0,
         velocity_y |-> IF distance > 0 THEN (dy * base_speed) \div distance ELSE 0,
         arrived |-> FALSE]

\* Ship.update
ShipUpdate(s, dt) ==
    IF s.arrived THEN s
    ELSE LET x == s.x + s.velocity_x * dt
             y == s.y + s.velocity_y * dt
         IN  [s EXCEPT !.x = x, !.y = y,
                       !.arrived = Within(s.target_x * TicksPerSec - x,
                                          s.target_y * TicksPerSec - y,
                                          arrival_distance * TicksPerSec)]

(***************************************************************************)
(* GameState (game/game_state.py).  The operators below take and return    *)
(* the game as a record g of the fields of GameState; the actions further  *)
(* down apply them to the variables.                                       *)
(***************************************************************************)
StatsTracker == [ships_produced |-> 0, battles_won |-> 0, battles_lost |-> 0]

SeqSum(f, n) ==
    LET RECURSIVE Go(_)
        Go(i) == IF i = 0 THEN 0 ELSE f[i] + Go(i - 1)
    IN  Go(n)

SelectSeq2(s, Test(_)) == SelectSeq(s, Test)

\* GameState.add_ship
AddShip(g, ship) == [g EXCEPT !.ships = Append(@, ship)]

\* A launch that does not clamp the count to the ships available.
SendFleetUnclamped(g, source_planet, target_planet, ship_count) ==
    IF ship_count <= 0 THEN g
    ELSE AddShip([g EXCEPT !.planets[source_planet].ship_count = @ - ship_count],
                 Ship(g.planets, source_planet, target_planet,
                      g.planets[source_planet].owner, ship_count))

\* A launch that leaves the ships it sends on the source planet as well.
SendFleetFree(g, source_planet, target_planet, ship_count) ==
    LET source == g.planets[source_planet]
        count == IF source.ship_count < ship_count THEN source.ship_count
                 ELSE ship_count
    IN  IF count <= 0 THEN g
        ELSE AddShip(g, Ship(g.planets, source_planet, target_planet, source.owner,
                             count))

\* GameState._send_fleet
SendFleet(g, source_planet, target_planet, ship_count) ==
    LET source == g.planets[source_planet]
        count == IF source.ship_count < ship_count THEN source.ship_count
                 ELSE ship_count
    IN  IF count <= 0 THEN g
        ELSE AddShip([g EXCEPT !.planets[source_planet].ship_count = @ - count],
                     Ship(g.planets, source_planet, target_planet, source.owner, count))

\* A shield test that forgets the shield's target.
ShieldedAnywhere(g, planet_id) ==
    LET planet == g.planets[planet_id]
    IN  \/ planet.owner = "Player" /\ g.player_abilities.shield.active
        \/ planet.owner = "Enemy" /\ g.enemy_abilities.shield.active

\* The shield test of _handle_ship_arrival: the defender's own shield is
\* active and targets the planet.
Shielded(g, planet_id) ==
    LET planet == g.planets[planet_id]
    IN  \/ /\ planet.owner = "Player"
           /\ g.player_abilities.shield.active
           /\ g.player_abilities.shield.target = planet_id
        \/ /\ planet.owner = "Enemy"
           /\ g.enemy_abilities.shield.active
           /\ g.enemy_abilities.shield.target = planet_id

\* A halving that rounds up.
HalvedForceUp(fleet_size) == (fleet_size + 1) \div 2

\* int(attacking_force * 0.5)
HalvedForce(fleet_size) == fleet_size \div 2

\* The bookkeeping of a capture (both capture branches do the same).
CaptureStats(g, attacker, original_owner) ==
    LET g1 == IF attacker = "Player"
              THEN [g EXCEPT !.player_stats_tracker.battles_won = @ + 1]
              ELSE [g EXCEPT !.enemy_stats_tracker.battles_won = @ + 1]
    IN  IF original_owner = "Player"
        THEN [g1 EXCEPT !.player_stats_tracker.battles_lost = @ + 1,
                        !.tactical_penalties = @ + lost_planet_penalty]
        ELSE IF original_owner = "Enemy"
        THEN [g1 EXCEPT !.enemy_stats_tracker.battles_lost = @ + 1]
        ELSE g1

\* A failed attack that costs the Player no penalty.
DefenceStatsFree(g, attacker, defender) ==
    LET g1 == IF attacker = "Player"
              THEN [g EXCEPT !.player_stats_tracker.battles_lost = @ + 1]
              ELSE [g EXCEPT !.enemy_stats_tracker.battles_lost = @ + 1]
    IN  IF defender = "Player"
        THEN [g1 EXCEPT !.player_stats_tracker.battles_won = @ + 1]
        ELSE IF defender = "Enemy"
        THEN [g1 EXCEPT !.enemy_stats_tracker.battles_won = @ + 1]
        ELSE g1

\* The bookkeeping of a failed attack.
DefenceStats(g, attacker, defender) ==
    LET g1 == IF attacker = "Player"
              THEN [g EXCEPT !.player_stats_tracker.battles_lost = @ + 1,
                             !.tactical_penalties = @ + lost_battle_penalty]
              ELSE [g EXCEPT !.enemy_stats_tracker.battles_lost = @ + 1]
    IN  IF defender = "Player"
        THEN [g1 EXCEPT !.player_stats_tracker.battles_won = @ + 1]
        ELSE IF defender = "Enemy"
        THEN [g1 EXCEPT !.enemy_stats_tracker.battles_won = @ + 1]
        ELSE g1

\* A reinforcement that is booked as a battle won by the fleet's owner.
ReinforceBooked(g, ship) ==
    LET g1 == [g EXCEPT !.planets[ship.target_planet].ship_count =
                            @ + ship.fleet_size]
    IN  IF ship.owner = "Player"
        THEN [g1 EXCEPT !.player_stats_tracker.battles_won = @ + 1]
        ELSE [g1 EXCEPT !.enemy_stats_tracker.battles_won = @ + 1]

\* The reinforcement branch: same owner, the fleet joins the garrison.
Reinforce(g, ship) ==
    [g EXCEPT !.planets[ship.target_planet].ship_count = @ + ship.fleet_size]

\* The branch ship_count > 0 after the subtraction: the defender holds with
\* the remaining ships.
Repel(g, ship, remaining) ==
    DefenceStats([g EXCEPT !.planets[ship.target_planet].ship_count = remaining],
                 ship.owner, g.planets[ship.target_planet].owner)

\* A conquest that keeps the negative count of the subtraction.
ConquerSigned(g, ship, remaining) ==
    CaptureStats([g EXCEPT !.planets[ship.target_planet].owner = ship.owner,
                           !.planets[ship.target_planet].ship_count = remaining],
                 ship.owner, g.planets[ship.target_planet].owner)

\* The branch ship_count < 0 after the subtraction: the attacker takes the
\* planet with abs(ship_count) ships.
Conquer(g, ship, remaining) ==
    CaptureStats([g EXCEPT !.planets[ship.target_planet].owner = ship.owner,
                           !.planets[ship.target_planet].ship_count = Abs(remaining)],
                 ship.owner, g.planets[ship.target_planet].owner)

\* A tie that goes to the defender.
TieHolds(g, ship, remaining) == Repel(g, ship, remaining)

\* A tie that leaves the planet to nobody.
ConquerTieNeutral(g, ship, remaining) ==
    CaptureStats([g EXCEPT !.planets[ship.target_planet].owner = "Neutral",
                           !.planets[ship.target_planet].ship_count = 0],
                 ship.owner, g.planets[ship.target_planet].owner)

\* The branch ship_count == 0 after the subtraction: the attacker takes the
\* planet with 0 ships.
ConquerTie(g, ship, remaining) ==
    CaptureStats([g EXCEPT !.planets[ship.target_planet].owner = ship.owner,
                           !.planets[ship.target_planet].ship_count = 0],
                 ship.owner, g.planets[ship.target_planet].owner)

\* GameState._handle_ship_arrival
HandleShipArrival(g, ship) ==
    LET t == ship.target_planet
        planet == g.planets[t]
    IN  IF planet.owner = ship.owner
        THEN Reinforce(g, ship)
        ELSE LET attacking_force == IF Shielded(g, t)
                                    THEN HalvedForce(ship.fleet_size)
                                    ELSE ship.fleet_size
                 remaining == planet.ship_count - attacking_force
             IN  IF remaining < 0 THEN Conquer(g, ship, remaining)
                 ELSE IF remaining = 0 THEN ConquerTie(g, ship, remaining)
                 ELSE Repel(g, ship, remaining)

AbilitiesOf(g, owner) ==
    IF owner = "Player" THEN g.player_abilities ELSE g.enemy_abilities

SetAbility(g, owner, kind, a) ==
    IF owner = "Player" THEN [g EXCEPT !.player_abilities[kind] = a]
    ELSE [g EXCEPT !.enemy_abilities[kind] = a]

\* A recall that credits the planet the fleet was flying to.
RECURSIVE RecallFleetsToTarget(_, _, _, _)
RecallFleetsToTarget(g, snapshot, i, owner) ==
    IF i > Len(snapshot) THEN g
    ELSE LET ship == snapshot[i]
         IN  IF ship.owner = owner
             THEN RecallFleetsToTarget(
                      [g EXCEPT !.planets[ship.target_planet].ship_count =
                                    @ + ship.fleet_size,
                                !.ships = SelectSeq2(@, LAMBDA s : s # ship)],
                      snapshot, i + 1, owner)
             ELSE RecallFleetsToTarget(g, snapshot, i + 1, owner)

\* A recall that removes the fleets of both sides and credits the owner's.
RECURSIVE RecallAllFleets(_, _, _, _)
RecallAllFleets(g, snapshot, i, owner) ==
    IF i > Len(snapshot) THEN g
    ELSE LET ship == snapshot[i]
         IN  RecallAllFleets(
                 [g EXCEPT !.planets[ship.source_planet].ship_count =
                               IF ship.owner = owner THEN @ + ship.fleet_size ELSE @,
                           !.ships = SelectSeq2(@, LAMBDA s : s # ship)],
                 snapshot, i + 1, owner)

\* The loop of activate_recall over a copy of the fleet list: every fleet of
\* owner is credited to its origin planet and removed.
RECURSIVE RecallFleets(_, _, _, _)
RecallFleets(g, snapshot, i, owner) ==
    IF i > Len(snapshot) THEN g
    ELSE LET ship == snapshot[i]
         IN  IF ship.owner = owner
             THEN RecallFleets(
                      [g EXCEPT !.planets[ship.source_planet].ship_count =
                                    @ + ship.fleet_size,
                                !.ships = SelectSeq2(@, LAMBDA s : s # ship)],
                      snapshot, i + 1, owner)
             ELSE RecallFleets(g, snapshot, i + 1, owner)

\* GameState.activate_recall
ActivateRecall(g, owner) ==
    LET ability == AbilitiesOf(g, owner).recall
    IN  IF CanActivate(ability)
        THEN RecallFleets(SetAbility(g, owner, "recall", Activate(ability, None)),
                          g.ships, 1, owner)
        ELSE g

\* GameState.activate_production_surge
ActivateProductionSurge(g, owner) ==
    SetAbility(g, owner, "production",
               Activate(AbilitiesOf(g, owner).production, None))

\* A shield activation that does not ask who owns the planet.
ActivateShieldAnyPlanet(g, planet, owner) ==
    SetAbility(g, owner, "shield", Activate(AbilitiesOf(g, owner).shield, planet))

\* GameState.activate_shield
ActivateShield(g, planet, owner) ==
    IF planet # None /\ g.planets[planet].owner = owner
    THEN SetAbility(g, owner, "shield",
                    Activate(AbilitiesOf(g, owner).shield, planet))
    ELSE g

\* The value activate_shield returns.
ActivateShieldResult(g, planet, owner) ==
    /\ planet # None
    /\ g.planets[planet].owner = owner
    /\ CanActivate(AbilitiesOf(g, owner).shield)

\* A check that calls a side eliminated as soon as it holds no planet.
CheckGameOverPlanetsOnly(g) ==
    LET player_planets == SelectSeq2(g.planets, LAMBDA p : p.owner = "Player")
        enemy_planets == SelectSeq2(g.planets, LAMBDA p : p.owner = "Enemy")
    IN  IF Len(enemy_planets) = 0 THEN "victory"
        ELSE IF Len(player_planets) = 0 THEN "defeat"
        ELSE "None"

\* A check that calls a side eliminated as soon as it has no fleet in transit.
CheckGameOverFleetsOnly(g) ==
    LET player_ships == SelectSeq2(g.ships, LAMBDA s : s.owner = "Player")
        enemy_ships == SelectSeq2(g.ships, LAMBDA s : s.owner = "Enemy")
    IN  IF Len(enemy_ships) = 0 THEN "victory"
        ELSE IF Len(player_ships) = 0 THEN "defeat"
        ELSE "None"

\* GameState.check_game_over; the value None is written "None".
CheckGameOver(g) ==
    LET player_planets == SelectSeq2(g.planets, LAMBDA p : p.owner = "Player")
        player_ships == SelectSeq2(g.ships, LAMBDA s : s.owner = "Player")
        enemy_planets == SelectSeq2(g.planets, LAMBDA p : p.owner = "Enemy")
        enemy_ships == SelectSeq2(g.ships, LAMBDA s : s.owner = "Enemy")
    IN  IF Len(enemy_planets) = 0 /\ Len(enemy_ships) = 0 THEN "victory"
        ELSE IF Len(player_planets) = 0 /\ Len(player_ships) = 0 THEN "defeat"
        ELSE "None"

\* A score whose tactical part is not held at zero.
CalculateFinalScoreUnclamped(g) ==
    (base_score - g.tactical_penalties)
    + (IF g.game_time < 60 * TicksPerSec THEN 50
       ELSE IF g.game_time < 120 * TicksPerSec THEN 30
       ELSE IF g.game_time < 180 * TicksPerSec THEN 15
       ELSE IF g.game_time < 300 * TicksPerSec THEN 5
       ELSE 0)

\* GameState.calculate_final_score
CalculateFinalScore(g) ==
    LET tactical_score == Max(0, base_score - g.tactical_penalties)
        time_bonus == IF g.game_time < 60 * TicksPerSec THEN 50
                      ELSE IF g.game_time < 120 * TicksPerSec THEN 30
                      ELSE IF g.game_time < 180 * TicksPerSec THEN 15
                      ELSE IF g.game_time < 300 * TicksPerSec THEN 5
                      ELSE 0
    IN  tactical_score + time_bonus

(***************************************************************************)
(* The opponent (game/ai/simple_ai.py, game/ai/base_ai.py)                 *)
(***************************************************************************)
\* SimpleAI.__init__
SimpleAI(difficulty) ==
    [difficulty |-> difficulty, decision_timer |-> 0, ability_timer |-> 0]

\* An opponent that decides every second on every difficulty.
decision_interval_hard(difficulty) == TicksPerSec

decision_interval(difficulty) ==
    IF difficulty = "easy" THEN 3 * TicksPerSec
    ELSE IF difficulty = "medium" THEN 2 * TicksPerSec
    ELSE TicksPerSec

min_ships_to_attack(difficulty) ==
    IF difficulty = "easy" THEN 20
    ELSE IF difficulty = "medium" THEN 10
    ELSE 5

use_abilities(difficulty) == difficulty \notin {"easy", "medium"}

\* int(source.ship_count * self.aggression) in double arithmetic, for
\* ship counts below 400: 0.3 and 0.5 give the floor of the exact product;
\* 0.7 gives one less at the counts listed (90 * 0.7 = 62.99999999999999).
ShipsToSend(ship_count, difficulty) ==
    IF difficulty = "easy" THEN (ship_count * 3) \div 10
    ELSE IF difficulty = "medium" THEN (ship_count * 5) \div 10
    ELSE (ship_count * 7) \div 10
         - (IF ship_count \in {90, 170, 180, 330, 340, 350, 360} THEN 1 ELSE 0)

\* The planets of one owner, in the order of game_state.planets
\* (get_enemy_planets, get_player_planets, get_neutral_planets).
RECURSIVE PlanetsFrom(_, _, _)
PlanetsFrom(planets, owner, i) ==
    IF i > Len(planets) THEN << >>
    ELSE IF planets[i].owner = owner
         THEN <<i>> \o PlanetsFrom(planets, owner, i + 1)
         ELSE PlanetsFrom(planets, owner, i + 1)

PlanetsOf(planets, owner) == PlanetsFrom(planets, owner, 1)

PlanetDistance(planets, a, b) ==
    Distance(planets[a].x, planets[a].y, planets[b].x, planets[b].y)

\* score_target of _select_best_target, times 4000 (an integer).
ScoreTarget(planets, source, target) ==
    LET t == planets[target]
        distance == PlanetDistance(planets, source, target)
        production_score == 6000 * t.production_rate
        distance_score == Max(0, 4000 - 4 * distance)
        weakness_score == Max(0, 6000 - 60 * t.ship_count)
    IN  (production_score + distance_score + weakness_score)
        * (IF t.owner = "Player" THEN 3 ELSE 2)

\* max(targets, key) and min(targets, key) of Python: the first extreme.
FirstMax(targets, Key(_)) ==
    LET i == CHOOSE i \in 1..Len(targets) :
                 /\ \A j \in 1..Len(targets) : Key(targets[j]) <= Key(targets[i])
                 /\ \A j \in 1..(i - 1) : Key(targets[j]) < Key(targets[i])
    IN  targets[i]

FirstMin(targets, Key(_)) ==
    LET i == CHOOSE i \in 1..Len(targets) :
                 /\ \A j \in 1..Len(targets) : Key(targets[j]) >= Key(targets[i])
                 /\ \A j \in 1..(i - 1) : Key(targets[j]) > Key(targets[i])
    IN  targets[i]

\* SimpleAI._select_best_target (targets is not empty)
SelectBestTarget(planets, difficulty, source, targets) ==
    IF difficulty = "hard"
    THEN FirstMax(targets, LAMBDA t : ScoreTarget(planets, source, t))
    ELSE FirstMin(targets, LAMBDA t : PlanetDistance(planets, source, t))

\* SimpleAI._should_attack; ships > count * 1.5 and ships > count * 1.2 in
\* double arithmetic agree with the exact comparisons for counts below 400.
ShouldAttack(planets, difficulty, source, target) ==
    LET ships_to_send == ShipsToSend(planets[source].ship_count, difficulty)
        t == planets[target]
    IN  IF ships_to_send = 0 THEN FALSE
        ELSE IF t.owner = "Neutral" THEN ships_to_send > t.ship_count
        ELSE IF difficulty = "easy" THEN 2 * ships_to_send > 3 * t.ship_count
        ELSE 5 * ships_to_send > 6 * t.ship_count

\* The loop of make_decision over the opponent's planets: the actions.
RECURSIVE DecideFrom(_, _, _, _)
DecideFrom(planets, difficulty, my_planets, i) ==
    IF i > Len(my_planets) THEN << >>
    ELSE LET source == my_planets[i]
             targets == PlanetsOf(planets, "Player") \o PlanetsOf(planets, "Neutral")
             rest == DecideFrom(planets, difficulty, my_planets, i + 1)
         IN  IF planets[source].ship_count < min_ships_to_attack(difficulty)
             THEN rest
             ELSE IF targets = << >> THEN rest
             ELSE LET best_target == SelectBestTarget(planets, difficulty, source, targets)
                      ships_to_send == ShipsToSend(planets[source].ship_count, difficulty)
                  IN  IF /\ ShouldAttack(planets, difficulty, source, best_target)
                         /\ ships_to_send > 0
                      THEN <<[action |-> "send_fleet", source_planet |-> source,
                              target_planet |-> best_target,
                              ship_count |-> ships_to_send]>> \o rest
                      ELSE rest

\* A fleet within threat_distance of a planet (get_distance(s, best_planet)).
Threatens(ship, planet) ==
    Within(ship.x - planet.x * TicksPerSec, ship.y - planet.y * TicksPerSec,
           threat_distance * TicksPerSec)

\* SimpleAI._consider_abilities
ConsiderAbilities(g) ==
    LET my_planets == PlanetsOf(g.planets, "Enemy")
        player_planets == PlanetsOf(g.planets, "Player")
        enemy_ships == SelectSeq2(g.ships, LAMBDA s : s.owner = "Enemy")
        high_prod == SelectSeq2(my_planets,
                                LAMBDA p : g.planets[p].production_rate >= 3)
        g1 == IF g.enemy_abilities.production.available /\ Len(high_prod) >= 2
              THEN ActivateProductionSurge(g, "Enemy")
              ELSE g
        g2 == IF g1.enemy_abilities.shield.available /\ my_planets # << >>
              THEN LET best_planet ==
                           FirstMax(my_planets,
                                    LAMBDA p : g1.planets[p].production_rate)
                       threats ==
                           SelectSeq2(g1.ships,
                                      LAMBDA s : /\ s.owner = "Player"
                                                 /\ Threatens(s, g1.planets[best_planet]))
                   IN  IF /\ threats # << >>
                          /\ g1.planets[best_planet].ship_count < threat_ship_limit
                       THEN ActivateShield(g1, best_planet, "Enemy")
                       ELSE g1
              ELSE g1
        my_total_ships ==
            SeqSum([i \in 1..Len(my_planets) |-> g2.planets[my_planets[i]].ship_count],
                   Len(my_planets)) + Len(enemy_ships)
        player_total_ships ==
            SeqSum([i \in 1..Len(player_planets) |->
                        g2.planets[player_planets[i]].ship_count],
                   Len(player_planets))
    IN  IF /\ g2.enemy_abilities.recall.available
           /\ player_total_ships > my_total_ships * 2
           /\ Len(enemy_ships) >= 3
        THEN ActivateRecall(g2, "Enemy")
        ELSE g2

\* SimpleAI.make_decision: the game after it (timers, abilities used) and
\* the actions it returns.
MakeDecision(g, dt) ==
    LET d == g.ai.difficulty
        decision_timer == g.ai.decision_timer + dt
        ability_timer == g.ai.ability_timer + dt
        check == use_abilities(d) /\ ability_timer >= ability_check_interval * TicksPerSec
        g1 == [g EXCEPT !.ai.decision_timer = decision_timer,
                        !.ai.ability_timer = IF check THEN 0 ELSE ability_timer]
        g2 == IF check THEN ConsiderAbilities(g1) ELSE g1
    IN  Only({IF decision_timer < decision_interval(d)
              THEN [game |-> after, actions |-> << >>]
              ELSE [game |-> [after EXCEPT !.ai.decision_timer = 0],
                    actions |-> DecideFrom(after.planets, d,
                                           PlanetsOf(after.planets, "Enemy"), 1)] :
              after \in {g2}})

(***************************************************************************)
(* GameState.update                                                        *)
(***************************************************************************)
\* What one arrival resolution read and wrote (recorded for the properties).
ArrivalRecord(ship, before, after) ==
    [ship |-> ship,
     planet_before |-> before.planets[ship.target_planet],
     planet_after |-> after.planets[ship.target_planet],
     player_shield |-> before.player_abilities.shield,
     enemy_shield |-> before.enemy_abilities.shield,
     stats_before |-> <<before.player_stats_tracker, before.enemy_stats_tracker,
                        before.tactical_penalties>>,
     stats_after |-> <<after.player_stats_tracker, after.enemy_stats_tracker,
                       after.tactical_penalties>>,
     others_unchanged |->
         \A p \in 1..Len(before.planets) :
             p # ship.target_planet => after.planets[p] = before.planets[p]]

\* A loop that resolves an arrived fleet and leaves it in the fleet list.
RECURSIVE UpdateShipsKeep(_, _, _, _, _, _)
UpdateShipsKeep(g, snapshot, i, dt, kept, arrivals) ==
    IF i > Len(snapshot)
    THEN [game |-> [g EXCEPT !.ships = kept], arrivals |-> arrivals]
    ELSE LET ship == ShipUpdate(snapshot[i], dt)
         IN  IF ship.arrived
             THEN LET g2 == HandleShipArrival(g, ship)
                  IN  UpdateShipsKeep(g2, snapshot, i + 1, dt, Append(kept, ship),
                                      Append(arrivals, ArrivalRecord(ship, g, g2)))
             ELSE UpdateShipsKeep(g, snapshot, i + 1, dt, Append(kept, ship), arrivals)

\* The loop of update over a copy of the fleet list: each fleet moves; a
\* fleet that has arrived is removed and resolved before the next one moves.
RECURSIVE UpdateShipsFrom(_, _, _, _, _, _)
UpdateShipsFrom(g, snapshot, i, dt, kept, arrivals) ==
    IF i > Len(snapshot)
    THEN [game |-> [g EXCEPT !.ships = kept], arrivals |-> arrivals]
    ELSE LET ship == ShipUpdate(snapshot[i], dt)
         IN  IF ship.arrived
             THEN LET g2 == HandleShipArrival(g, ship)
                  IN  UpdateShipsFrom(g2, snapshot, i + 1, dt, kept,
                                      Append(arrivals, ArrivalRecord(ship, g, g2)))
             ELSE UpdateShipsFrom(g, snapshot, i + 1, dt, Append(kept, ship), arrivals)

\* The AI actions of one tick, executed in order.
RECURSIVE ExecuteActions(_, _, _)
ExecuteActions(g, actions, i) ==
    IF i > Len(actions) THEN g
    ELSE ExecuteActions(
             IF actions[i].action = "send_fleet"
             THEN SendFleet(g, actions[i].source_planet, actions[i].target_planet,
                            actions[i].ship_count)
             ELSE g,
             actions, i + 1)

\* A multiplier that ignores the Production Surge.
ProductionMultiplierNone(abilities) == 1

\* 2.0 if the side's Production Surge is active else 1.0
ProductionMultiplier(abilities) == IF abilities.production.active THEN 2 ELSE 1

\* One planet of the production loop: the rate is multiplied for the call of
\* Planet.update and reset after it.
ProducePlanet(g, p, dt) ==
    LET planet == g.planets[p]
        original_rate == planet.production_rate
        multiplier == IF planet.owner = "Player"
                      THEN ProductionMultiplier(g.player_abilities)
                      ELSE ProductionMultiplier(g.enemy_abilities)
    IN  IF planet.owner \in {"Player", "Enemy"}
        THEN [PlanetUpdate([planet EXCEPT !.production_rate = original_rate * multiplier],
                           dt)
                 EXCEPT !.production_rate = original_rate]
        ELSE PlanetUpdate(planet, dt)

\* Ships produced this tick on the planets owner held before production.
Produced(g, planets_after, owner) ==
    SeqSum([p \in 1..Len(g.planets) |->
                IF g.planets[p].owner = owner
                THEN planets_after[p].ship_count - g.planets[p].ship_count
                ELSE 0],
           Len(g.planets))

ProducePlanets(g, dt) ==
    LET planets_after == [p \in 1..Len(g.planets) |-> ProducePlanet(g, p, dt)]
    IN  [g EXCEPT !.planets = planets_after,
                  !.player_stats_tracker.ships_produced =
                      @ + Produced(g, planets_after, "Player"),
                  !.enemy_stats_tracker.ships_produced =
                      @ + Produced(g, planets_after, "Enemy")]

\* An update that advances the abilities at its end, after the production.
UpdateAbilitiesLast(g, dt) ==
    Only({Only({[game |-> [produced EXCEPT
                               !.player_abilities = UpdateAbilities(@, dt),
                               !.enemy_abilities = UpdateAbilities(@, dt)],
                 arrivals |-> moved.arrivals] :
                produced \in {ProducePlanets(moved.game, dt)}}) :
          moved \in {UpdateShipsFrom(g2, g2.ships, 1, dt, << >>, << >>) :
          g2 \in {ExecuteActions(decision.game, decision.actions, 1) :
          decision \in {MakeDecision(g1, dt) :
          g1 \in {[g EXCEPT !.game_time = @ + dt]}}}}})

\* GameState.update: the game after the tick and the arrivals it resolved.
Update(g, dt) ==
    Only({[game |-> ProducePlanets(moved.game, dt), arrivals |-> moved.arrivals] :
          moved \in {UpdateShipsFrom(g2, g2.ships, 1, dt, << >>, << >>) :
          g2 \in {ExecuteActions(decision.game, decision.actions, 1) :
          decision \in {MakeDecision(g1, dt) :
          g1 \in {[g EXCEPT !.game_time = @ + dt,
                            !.player_abilities = UpdateAbilities(@, dt),
                            !.enemy_abilities = UpdateAbilities(@, dt)]}}}}})

(***************************************************************************)
(* InputHandler._handle_click (game/input_handler.py) with the renderer's  *)
(* slider (Renderer.get_ships_to_send).                                    *)
(***************************************************************************)
\* max(1, int(ship_count * slider_value)), the slider given in percent.
GetShipsToSend(ship_count, slider) == Max(1, (ship_count * slider) \div 100)

\* A click handler that sends from the selected planet whoever owns it.
HandleClickAnyOwner(g, clicked_planet, slider) ==
    IF clicked_planet = None
    THEN [g EXCEPT !.selected_planet = None]
    ELSE IF g.selected_planet = None
    THEN IF g.planets[clicked_planet].owner = "Player"
         THEN [g EXCEPT !.selected_planet = clicked_planet]
         ELSE g
    ELSE LET source == g.selected_planet
             count == g.planets[source].ship_count
             ships_to_send == Min(GetShipsToSend(count, slider), count)
             g1 == IF count >= 1 /\ ships_to_send > 0
                   THEN AddShip([g EXCEPT !.planets[source].ship_count =
                                              @ - ships_to_send],
                                Ship(g.planets, source, clicked_planet, "Player",
                                     ships_to_send))
                   ELSE g
         IN  [g1 EXCEPT !.selected_planet = None]

HandleClick(g, clicked_planet, slider) ==
    IF clicked_planet = None
    THEN [g EXCEPT !.selected_planet = None]
    ELSE IF g.selected_planet = None
    THEN IF g.planets[clicked_planet].owner = "Player"
         THEN [g EXCEPT !.selected_planet = clicked_planet]
         ELSE g
    ELSE LET source == g.selected_planet
             count == g.planets[source].ship_count
             ships_to_send == Min(GetShipsToSend(count, slider), count)
             g1 == IF /\ g.planets[source].owner = "Player"
                      /\ count >= 1
                      /\ ships_to_send > 0
                   THEN AddShip([g EXCEPT !.planets[source].ship_count =
                                              @ - ships_to_send],
                                Ship(g.planets, source, clicked_planet, "Player",
                                     ships_to_send))
                   ELSE g
         IN  [g1 EXCEPT !.selected_planet = None]

(***************************************************************************)
(* The state machine                                                       *)
(***************************************************************************)
VARIABLES
    planets,               \* GameState.planets: sequence of planet records
    ships,                 \* GameState.ships: the active fleets, in list order
    selected_planet,       \* GameState.selected_planet (None or a planet index)
    player_abilities,      \* GameState.player_abilities
    enemy_abilities,       \* GameState.enemy_abilities
    player_stats_tracker,  \* GameState.player_stats_tracker
    enemy_stats_tracker,   \* GameState.enemy_stats_tracker
    tactical_penalties,    \* GameState.tactical_penalties
    game_time,             \* GameState.game_time, in ticks
    ai,                    \* GameState.ai: difficulty and the two timers
    arrivals,              \* history: the arrivals the latest update resolved
    elapsed,               \* history: per ability, the dt's of the updates since
                           \* its activation, summed up to its duration
    ticks,                 \* history: the number of update calls so far
    commands,              \* history: the fleets launched by clicks and the
                           \* abilities activated by keys, so far
    last,                  \* history: the latest direct method call, with its
                           \* arguments and the value it returned
    gen                    \* _generate_map: the screen, the map size, the
                           \* locals left_planets and attempts, and whether
                           \* the planets were created

vars == <<planets, ships, selected_planet, player_abilities, enemy_abilities,
          player_stats_tracker, enemy_stats_tracker, tactical_penalties,
          game_time, ai, arrivals, elapsed, ticks, commands, last, gen>>

\* The screen of the maps below.
screen_width == 800
screen_height == 600

\* _generate_map for one placed left planet: the Player's planet, its mirror
\* for the Enemy, and the Neutral planet on the centre line.
GenerateMap(x, y, radius, center_y, center_radius, center_ships) ==
    <<Planet(x, y, radius, "Player", start_ships),
      Planet(screen_width - x, y, radius, "Enemy", start_ships),
      Planet(screen_width \div 2, center_y, center_radius, "Neutral", center_ships)>>

\* Maps _generate_map can return on this screen (left x in 80..320, y in
\* 320..520 outside the UI zone, radius in 20..70, centre ships in 20..35).
Maps ==
    {GenerateMap(200, 400, 50, 400, 62, 25)}

(***************************************************************************)
(* _generate_map: the left planets are placed by rejection sampling, then  *)
(* the planets are created: the left ones, their mirrors, the centre one.  *)
(***************************************************************************)
MapSizes == {"small", "medium", "large", "invalid"}

\* planet_counts.get(map_size, 13)
total_planets(map_size) ==
    CASE map_size = "small" -> 7
      [] map_size = "medium" -> 13
      [] map_size = "large" -> 19
      [] OTHER -> 13

planets_per_side(map_size) == (total_planets(map_size) - 1) \div 2

min_radius == 20
max_radius == 70
min_distance == 180
margin == 80
ui_exclusion_width == 350
ui_exclusion_height == 320
max_attempts == 1000
neutral_ships_low == 15
neutral_ships_high == 30
center_ships_low == 20
center_ships_high == 35

\* The check of a drawn position against the left planets placed so far:
\* math.sqrt(dx ** 2 + dy ** 2) < radius + existing[2] + min_distance, the
\* right side being a whole number, compares as the squares do.
TooClose(x, y, radius, existing) ==
    Sq(x - existing.x) + Sq(y - existing.y)
        < Sq(radius + existing.radius + min_distance)

\* A check against the planet placed last only.
ValidAgainstLast(left_planets, x, y, radius) ==
    Len(left_planets) > 0 =>
        ~TooClose(x, y, radius, left_planets[Len(left_planets)])

Valid(left_planets, x, y, radius) ==
    \A i \in 1..Len(left_planets) : ~TooClose(x, y, radius, left_planets[i])

\* A zone that reserves nothing.
NoExclusionZone(x, y) == FALSE

InExclusionZone(x, y) == x < ui_exclusion_width /\ y < ui_exclusion_height

\* One pass of the placement loop with the draws x, y, radius.
Place(left_planets, x, y, radius) ==
    IF InExclusionZone(x, y)
    THEN left_planets
    ELSE IF Valid(left_planets, x, y, radius)
         THEN Append(left_planets, [x |-> x, y |-> y, radius |-> radius])
         ELSE left_planets

\* A loop that makes one attempt more than the budget.
PlacingOffByOne(gs) ==
    /\ Len(gs.left_planets) < planets_per_side(gs.map_size)
    /\ gs.attempts <= max_attempts

\* The condition of the placement loop.
Placing(gs) ==
    /\ Len(gs.left_planets) < planets_per_side(gs.map_size)
    /\ gs.attempts < max_attempts

\* Planets whose right copies are shifted across the centre line instead of
\* mirrored in it.
CreatePlanetsShifted(left_planets, width, left_ships, mirror_ships, center_y, center_radius, center_ships) ==
    [i \in 1..Len(left_planets) |->
        Planet(left_planets[i].x, left_planets[i].y, left_planets[i].radius,
               IF i = 1 THEN "Player" ELSE "Neutral",
               IF i = 1 THEN start_ships ELSE left_ships[i])]
    \o [i \in 1..Len(left_planets) |->
        Planet(width \div 2 + left_planets[i].x, left_planets[i].y,
               left_planets[i].radius,
               IF i = 1 THEN "Enemy" ELSE "Neutral",
               IF i = 1 THEN start_ships ELSE mirror_ships[i])]
    \o <<Planet(width \div 2, center_y, center_radius, "Neutral", center_ships)>>

\* The planet objects, in the order of game.planets; left_ships and
\* mirror_ships are the draws for the Neutral planets of each side.
CreatePlanets(left_planets, width, left_ships, mirror_ships, center_y, center_radius, center_ships) ==
    [i \in 1..Len(left_planets) |->
        Planet(left_planets[i].x, left_planets[i].y, left_planets[i].radius,
               IF i = 1 THEN "Player" ELSE "Neutral",
               IF i = 1 THEN start_ships ELSE left_ships[i])]
    \o [i \in 1..Len(left_planets) |->
        Planet(width - left_planets[i].x, left_planets[i].y,
               left_planets[i].radius,
               IF i = 1 THEN "Enemy" ELSE "Neutral",
               IF i = 1 THEN start_ships ELSE mirror_ships[i])]
    \o <<Planet(width \div 2, center_y, center_radius, "Neutral", center_ships)>>

\* The locals of _generate_map when it returned the map m of the games below.
Generated(m) ==
    [width |-> screen_width, height |-> screen_height, map_size |-> "medium",
     left_planets |-> <<[x |-> m[1].x, y |-> m[1].y, radius |-> m[1].radius]>>,
     attempts |-> max_attempts, done |-> TRUE]

SliderChoices == {50, 100}
DtChoices == {TicksPerSec, 15 * TicksPerSec}

Game ==
    [planets |-> planets, ships |-> ships, selected_planet |-> selected_planet,
     player_abilities |-> player_abilities, enemy_abilities |-> enemy_abilities,
     player_stats_tracker |-> player_stats_tracker,
     enemy_stats_tracker |-> enemy_stats_tracker,
     tactical_penalties |-> tactical_penalties, game_time |-> game_time, ai |-> ai]

\* The history of one ability over a step: 0 at its activation, then the
\* dt of every update, up to the ability's duration.
Elapsed(before, after, e, dt) ==
    IF before.available
    THEN 0
    ELSE Min(e + dt, before.duration)

\* The step to game g, dt being the time it advances (0 for a command).
Becomes(g, dt) ==
    /\ planets' = g.planets
    /\ ships' = g.ships
    /\ selected_planet' = g.selected_planet
    /\ player_abilities' = g.player_abilities
    /\ enemy_abilities' = g.enemy_abilities
    /\ player_stats_tracker' = g.player_stats_tracker
    /\ enemy_stats_tracker' = g.enemy_stats_tracker
    /\ tactical_penalties' = g.tactical_penalties
    /\ game_time' = g.game_time
    /\ ai' = g.ai
    /\ elapsed' = [o \in Sides |-> [k \in Kinds |->
                      Elapsed(AbilitiesOf(Game, o)[k], AbilitiesOf(g, o)[k],
                              elapsed[o][k], dt)]]
    /\ UNCHANGED gen

NoCall == [op |-> "none", args |-> << >>, result |-> TRUE]

\* GameState.__init__ on the map m with the AI difficulty d.
NewGame(m, d) ==
    /\ planets = m
    /\ ships = << >>
    /\ selected_planet = None
    /\ player_abilities = AbilitySet
    /\ enemy_abilities = AbilitySet
    /\ player_stats_tracker = StatsTracker
    /\ enemy_stats_tracker = StatsTracker
    /\ tactical_penalties = 0
    /\ game_time = 0
    /\ ai = SimpleAI(d)
    /\ arrivals = << >>
    /\ elapsed = [o \in Sides |-> [k \in Kinds |-> 0]]
    /\ ticks = 0
    /\ commands = 0
    /\ last = NoCall
    /\ gen = Generated(m)

Init == \E m \in Maps, d \in Difficulties : NewGame(m, d)

(***************************************************************************)
(* The game as main.py drives it: frames, mouse clicks and ability keys.   *)
(***************************************************************************)
\* The driver's frame: update(dt).
Tick(dt) ==
    /\ ticks < MaxTicks
    /\ \E u \in {Update(Game, dt)} :
           /\ Becomes(u.game, dt)
           /\ arrivals' = u.arrivals
    /\ ticks' = ticks + 1
    /\ UNCHANGED <<commands, last>>

\* A command that launches a fleet or activates an ability is given while
\* fewer than MaxCommands were; a command without effect can always be given.
Command(after) ==
    \E g \in {after} :
        LET effect == IF g.ships # ships \/ g.player_abilities # player_abilities
                      THEN 1 ELSE 0
        IN  /\ commands + effect <= MaxCommands
            /\ Becomes(g, 0)
            /\ commands' = commands + effect
            /\ UNCHANGED <<arrivals, ticks, last>>

\* A mouse click on a planet or on empty space, the slider at a percentage.
Click(clicked_planet, slider) == Command(HandleClick(Game, clicked_planet, slider))

\* PlanetWars._handle_ability_activation, one definition per key.
RecallKey == Command(ActivateRecall(Game, "Player"))

ProductionKey == Command(ActivateProductionSurge(Game, "Player"))

ShieldKey ==
    Command(IF selected_planet # None
            THEN IF planets[selected_planet].owner = "Player"
                 THEN ActivateShield(Game, selected_planet, "Player")
                 ELSE Game
            ELSE Game)

Next ==
    \/ \E dt \in DtChoices : Tick(dt)
    \/ \E c \in 0..Len(planets), slider \in SliderChoices : Click(c, slider)
    \/ RecallKey
    \/ ProductionKey
    \/ ShieldKey

Spec == Init /\ [][Next]_vars

(***************************************************************************)
(* The methods of GameState called directly, as the unit tests call them:  *)
(* a game is constructed and arranged, then one method is applied.         *)
(***************************************************************************)
\* One direct call, while fewer than MaxCalls were made: the game after it,
\* and the call recorded with the value it returned.
Call(after, dt, op, args, result) ==
    /\ commands < MaxCalls
    /\ \E g \in {after} : Becomes(g, dt)
    /\ commands' = commands + 1
    /\ last' = [op |-> op, args |-> args, result |-> result]
    /\ UNCHANGED ticks

\* A shield as an arrival can find it on the planets pl: never used, active
\* on a planet its side held at activation, or expired.
ShieldStates(pl) ==
    {ShieldGeneratorAbility}
    \cup {Activate(ShieldGeneratorAbility, p) :
              p \in {q \in 1..Len(pl) : pl[q].owner # "Neutral"}}
    \cup {AbilityUpdate(Activate(ShieldGeneratorAbility, 1),
                        shield_duration * TicksPerSec)}

CentreOwners == {"Neutral", "Player", "Enemy"}
CentreCounts == {0, 1, 25}
FleetSizes == {1, 2, 25, 26, 50, 51, 100, 102}

\* A game whose centre planet was set to an owner and a garrison and whose
\* shields were brought to a state, before any fleet arrives.
InitArrival ==
    \E m \in Maps, o \in CentreOwners, c \in CentreCounts :
        LET pl == [m EXCEPT ![Len(m)].owner = o, ![Len(m)].ship_count = c]
        IN  \E ps \in ShieldStates(pl), es \in ShieldStates(pl) :
                /\ planets = pl
                /\ ships = << >>
                /\ selected_planet = None
                /\ player_abilities = [AbilitySet EXCEPT !.shield = ps]
                /\ enemy_abilities = [AbilitySet EXCEPT !.shield = es]
                /\ player_stats_tracker = StatsTracker
                /\ enemy_stats_tracker = StatsTracker
                /\ tactical_penalties = 0
                /\ game_time = 0
                /\ ai = SimpleAI("medium")
                /\ arrivals = << >>
                /\ elapsed = [s \in Sides |-> [k \in Kinds |->
                       LET a == IF s = "Player" THEN ps ELSE es
                       IN  IF k = "shield" /\ ~a.available /\ ~a.active
                           THEN a.duration ELSE 0]]
                /\ ticks = 0
                /\ commands = 0
                /\ last = NoCall
                /\ gen = Generated(m)

\* game._handle_ship_arrival(Ship(source, target, owner, fleet_size))
Arrive(source, target, owner, fleet_size) ==
    /\ commands < MaxArrivals
    /\ LET ship == Ship(planets, source, target, owner, fleet_size)
           g == HandleShipArrival(Game, ship)
       IN  /\ Call(g, 0, "_handle_ship_arrival", <<source, target, owner, fleet_size>>,
                   TRUE)
           /\ arrivals' = <<ArrivalRecord(ship, Game, g)>>

NextArrival ==
    \E source \in 1..Len(planets), target \in 1..Len(planets), owner \in Sides,
       fleet_size \in FleetSizes :
        source # target /\ Arrive(source, target, owner, fleet_size)

SpecArrival == InitArrival /\ [][NextArrival]_vars

SendCounts == {-1, 0, 1, 25, 50, 60}

\* game._send_fleet(source, target, ship_count)
SendFleetCall(source_planet, target_planet, ship_count) ==
    /\ Call(SendFleet(Game, source_planet, target_planet, ship_count), 0,
            "_send_fleet", <<source_planet, target_planet, ship_count>>, TRUE)
    /\ UNCHANGED arrivals

\* game.activate_recall(owner)
RecallCall(owner) ==
    /\ Call(ActivateRecall(Game, owner), 0, "activate_recall",
            <<owner, Len(SelectSeq2(ships, LAMBDA s : s.owner = owner))>>,
            CanActivate(AbilitiesOf(Game, owner).recall))
    /\ UNCHANGED arrivals

NextFleets ==
    \/ \E s \in 1..Len(planets), t \in 1..Len(planets), n \in SendCounts :
           SendFleetCall(s, t, n)
    \/ \E owner \in Sides : RecallCall(owner)

SpecFleets == (\E m \in Maps : NewGame(m, "medium")) /\ [][NextFleets]_vars

\* game.activate_production_surge(owner)
ProductionSurgeCall(owner) ==
    /\ Call(ActivateProductionSurge(Game, owner), 0, "activate_production_surge",
            <<owner>>, CanActivate(AbilitiesOf(Game, owner).production))
    /\ UNCHANGED arrivals

\* game.activate_shield(planet, owner)
ShieldCall(planet, owner) ==
    /\ Call(ActivateShield(Game, planet, owner), 0, "activate_shield",
            <<planet, owner>>, ActivateShieldResult(Game, planet, owner))
    /\ UNCHANGED arrivals

\* The first loop of update: ability.update(dt) for the abilities of both sides.
AbilitiesUpdateCall(dt) ==
    /\ Call([Game EXCEPT !.player_abilities = UpdateAbilities(@, dt),
                         !.enemy_abilities = UpdateAbilities(@, dt)],
            dt, "update", <<dt>>, TRUE)
    /\ UNCHANGED arrivals

NextAbilities ==
    \/ \E owner \in Sides : RecallCall(owner)
    \/ \E owner \in Sides : ProductionSurgeCall(owner)
    \/ \E p \in 1..Len(planets), owner \in Sides : ShieldCall(p, owner)
    \/ \E dt \in DtChoices : AbilitiesUpdateCall(dt)

SpecAbilities == (\E m \in Maps : NewGame(m, "medium")) /\ [][NextAbilities]_vars

(***************************************************************************)
(* Late games: a game arranged, as the unit tests of check_game_over do,   *)
(* so that one side holds no planet, then driven as main.py drives it.     *)
(***************************************************************************)
\* The owners of the left, the right and the centre planet.
EndgameOwners == {<<"Player", "Player", "Neutral">>, <<"Enemy", "Enemy", "Neutral">>}
\* The sizes of the last fleet of the side without planets, on its way from
\* the planet that was its home to the centre planet; 0 is no fleet.
LastFleetSizes == {0, 10, 60}

\* The side that holds no planet under the owners ow.
Landless(ow) == IF ow[1] = "Player" THEN "Enemy" ELSE "Player"

InitEndgame ==
    \E m \in Maps, ow \in EndgameOwners, n \in LastFleetSizes :
        LET pl == [i \in 1..Len(m) |-> [m[i] EXCEPT !.owner = ow[i]]]
            home == IF Landless(ow) = "Enemy" THEN 2 ELSE 1
        IN  /\ planets = pl
            /\ ships = IF n = 0 THEN << >>
                       ELSE <<Ship(pl, home, Len(pl), Landless(ow), n)>>
            /\ selected_planet = None
            /\ player_abilities = AbilitySet
            /\ enemy_abilities = AbilitySet
            /\ player_stats_tracker = StatsTracker
            /\ enemy_stats_tracker = StatsTracker
            /\ tactical_penalties = 0
            /\ game_time = 0
            /\ ai = SimpleAI("hard")
            /\ arrivals = << >>
            /\ elapsed = [o \in Sides |-> [k \in Kinds |-> 0]]
            /\ ticks = 0
            /\ commands = 0
            /\ last = NoCall
            /\ gen = Generated(m)

\* The frames of a late game, while fewer than MaxEndTicks were run.
EndTick(dt) == ticks < MaxEndTicks /\ Tick(dt)

NextEndgame ==
    \/ \E dt \in DtChoices : EndTick(dt)
    \/ \E c \in 0..Len(planets), slider \in SliderChoices : Click(c, slider)
    \/ RecallKey
    \/ ProductionKey
    \/ ShieldKey

SpecEndgame == InitEndgame /\ [][NextEndgame]_vars

(***************************************************************************)
(* GameState.__init__ up to the end of _generate_map, on several screens   *)
(* and for every map size.                                                 *)
(***************************************************************************)
Screens == {<<800, 600>>, <<400, 300>>, <<1200, 800>>}
XDraws == {100, 200, 520}
YDraws == {100, 400}
RadiusDraws == {50}
NeutralShipDraws == {15, 30}
CenterRadiusDraws == {62}
CenterShipDraws == {25}

\* The fields __init__ has set when it calls _generate_map(map_size).
InitMap ==
    \E screen \in Screens, map_size \in MapSizes :
        /\ planets = << >>
        /\ ships = << >>
        /\ selected_planet = None
        /\ player_abilities = AbilitySet
        /\ enemy_abilities = AbilitySet
        /\ player_stats_tracker = StatsTracker
        /\ enemy_stats_tracker = StatsTracker
        /\ tactical_penalties = 0
        /\ game_time = 0
        /\ ai = SimpleAI("medium")
        /\ arrivals = << >>
        /\ elapsed = [o \in Sides |-> [k \in Kinds |-> 0]]
        /\ ticks = 0
        /\ commands = 0
        /\ last = NoCall
        /\ gen = [width |-> screen[1], height |-> screen[2],
                  map_size |-> map_size, left_planets |-> << >>,
                  attempts |-> 0, done |-> FALSE]

\* One pass of the placement loop; the draws are random.randint's.
PlacementAttempt(x, y, radius) ==
    /\ ~gen.done
    /\ Placing(gen)
    /\ x \in margin..(gen.width \div 2 - margin)
    /\ y \in margin..(gen.height - margin)
    /\ radius \in min_radius..max_radius
    /\ gen' = [gen EXCEPT !.attempts = @ + 1,
                          !.left_planets = Place(@, x, y, radius)]
    /\ UNCHANGED <<planets, ships, selected_planet, player_abilities,
                   enemy_abilities, player_stats_tracker, enemy_stats_tracker,
                   tactical_penalties, game_time, ai, arrivals, elapsed,
                   ticks, commands, last>>

\* The rest of _generate_map, once the loop has ended.
PlanetCreation(left_ships, mirror_ships, center_y, center_radius, center_ships) ==
    /\ ~gen.done
    /\ ~Placing(gen)
    /\ \A i \in 2..Len(gen.left_planets) :
           /\ left_ships[i] \in neutral_ships_low..neutral_ships_high
           /\ mirror_ships[i] \in neutral_ships_low..neutral_ships_high
    /\ center_y \in margin..(gen.height - margin)
    /\ center_radius \in min_radius..max_radius
    /\ center_ships \in center_ships_low..center_ships_high
    /\ planets' = CreatePlanets(gen.left_planets, gen.width, left_ships,
                                mirror_ships, center_y, center_radius,
                                center_ships)
    /\ gen' = [gen EXCEPT !.done = TRUE]
    /\ UNCHANGED <<ships, selected_planet, player_abilities,
                   enemy_abilities, player_stats_tracker, enemy_stats_tracker,
                   tactical_penalties, game_time, ai, arrivals, elapsed,
                   ticks, commands, last>>

NextMap ==
    \/ \E x \in XDraws, y \in YDraws, radius \in RadiusDraws :
           PlacementAttempt(x, y, radius)
    \/ \E left_ships \in [2..Len(gen.left_planets) -> NeutralShipDraws],
          mirror_ships \in [2..Len(gen.left_planets) -> NeutralShipDraws],
          center_y \in YDraws, center_radius \in CenterRadiusDraws,
          center_ships \in CenterShipDraws :
           PlanetCreation(left_ships, mirror_ships, center_y, center_radius,
                          center_ships)

SpecMap == InitMap /\ [][NextMap]_vars

(***************************************************************************)
(* GameState.__init__ on small screens: random.randint(a, b) raises        *)
(* ValueError when a > b.                                                  *)
(***************************************************************************)
SmallScreens == {<<400, 300>>, <<320, 160>>, <<319, 160>>, <<300, 300>>, <<400, 150>>, <<100, 100>>}

InitConstruct ==
    \E screen \in SmallScreens, map_size \in MapSizes :
        /\ planets = << >>
        /\ ships = << >>
        /\ selected_planet = None
        /\ player_abilities = AbilitySet
        /\ enemy_abilities = AbilitySet
        /\ player_stats_tracker = StatsTracker
        /\ enemy_stats_tracker = StatsTracker
        /\ tactical_penalties = 0
        /\ game_time = 0
        /\ ai = SimpleAI("medium")
        /\ arrivals = << >>
        /\ elapsed = [o \in Sides |-> [k \in Kinds |-> 0]]
        /\ ticks = 0
        /\ commands = 0
        /\ last = NoCall
        /\ gen = [width |-> screen[1], height |-> screen[2],
                  map_size |-> map_size, left_planets |-> << >>,
                  attempts |-> 0, done |-> FALSE]

\* A pass of the placement loop whose random.randint(margin, ...) has an
\* empty range: the ValueError leaves __init__.
EmptyRange ==
    /\ ~gen.done
    /\ Placing(gen)
    /\ \/ gen.width \div 2 - margin < margin
       \/ gen.height - margin < margin
    /\ last' = [op |-> "ValueError", args |-> <<gen.width, gen.height>>,
                result |-> FALSE]
    /\ UNCHANGED <<planets, ships, selected_planet, player_abilities,
                   enemy_abilities, player_stats_tracker, enemy_stats_tracker,
                   tactical_penalties, game_time, ai, arrivals, elapsed,
                   ticks, commands, gen>>

SmallXDraws == {80, 100}
SmallYDraws == {80, 100}

NextConstruct ==
    \/ \E x \in SmallXDraws, y \in SmallYDraws, radius \in RadiusDraws :
           PlacementAttempt(x, y, radius)
    \/ \E left_ships \in [2..Len(gen.left_planets) -> NeutralShipDraws],
          mirror_ships \in [2..Len(gen.left_planets) -> NeutralShipDraws],
          center_y \in SmallYDraws, center_radius \in CenterRadiusDraws,
          center_ships \in CenterShipDraws :
           PlanetCreation(left_ships, mirror_ships, center_y, center_radius,
                          center_ships)
    \/ EmptyRange

SpecConstruct == InitConstruct /\ [][NextConstruct]_vars

(***************************************************************************)
(* calculate_final_score on games whose penalties and time were set, as    *)
(* the unit tests set them.                                                *)
(***************************************************************************)
\* Sums of the penalties 5 and 10, below, at and above the base score.
PenaltyChoices == {0, 5, 20, 95, 100, 105, 150, 200}
\* Game times in seconds, at and between the thresholds of the time bonus.
SecondChoices == {0, 59, 60, 90, 119, 120, 179, 180, 200, 299, 300, 500}
\* The last frame before a threshold or the frame on it.
FrameChoices == {0, TicksPerSec - 1}

InitScore ==
    \E m \in Maps, penalties \in PenaltyChoices, seconds \in SecondChoices,
       frame \in FrameChoices :
        /\ planets = m
        /\ ships = << >>
        /\ selected_planet = None
        /\ player_abilities = AbilitySet
        /\ enemy_abilities = AbilitySet
        /\ player_stats_tracker = StatsTracker
        /\ enemy_stats_tracker = StatsTracker
        /\ tactical_penalties = penalties
        /\ game_time = seconds * TicksPerSec + frame
        /\ ai = SimpleAI("medium")
        /\ arrivals = << >>
        /\ elapsed = [o \in Sides |-> [k \in Kinds |-> 0]]
        /\ ticks = 0
        /\ commands = 0
        /\ last = NoCall
        /\ gen = Generated(m)

\* game.calculate_final_score()
FinalScoreCall ==
    /\ Call(Game, 0, "calculate_final_score", << >>, CalculateFinalScore(Game))
    /\ UNCHANGED arrivals

NextScore == FinalScoreCall

SpecScore == InitScore /\ [][NextScore]_vars

(***************************************************************************)
(* Production alone: the planets' update(dt) and the clock of the game,    *)
(* with no fleet launched and no ability used.                             *)
(***************************************************************************)
\* Frames of a third, two thirds and one half of a second, and the frames
\* of the game above.
ProductionDts == {8, 12, 16} \cup DtChoices

\* The production loop of update(dt) and its game_time += dt.
ProductionCall(dt) ==
    /\ commands < MaxUpdates
    /\ \E g \in {[ProducePlanets(Game, dt) EXCEPT !.game_time = @ + dt]} :
           Becomes(g, dt)
    /\ commands' = commands + 1
    /\ last' = [op |-> "update", args |-> <<dt>>, result |-> TRUE]
    /\ UNCHANGED <<arrivals, ticks>>

NextProduction == \E dt \in ProductionDts : ProductionCall(dt)

SpecProduction ==
    (\E m \in Maps : NewGame(m, "medium")) /\ [][NextProduction]_vars

(***************************************************************************)
(* The opponent called directly, as the unit tests of SimpleAI call it, on *)
(* games whose ship counts and centre planet were set.                     *)
(***************************************************************************)
\* Ships on the Enemy's planet, on the Player's planet and on the centre one.
SourceCounts == {0, 3, 60, 90, 100}
PlayerCounts == {40, 52, 60}
TargetCounts == {25, 40, 62}
AICentreOwners == {"Neutral", "Enemy"}

InitAI ==
    \E m \in Maps, d \in Difficulties, sc \in SourceCounts, pc \in PlayerCounts,
       o \in AICentreOwners, tc \in TargetCounts :
        /\ planets = [m EXCEPT ![1].ship_count = pc, ![2].ship_count = sc,
                               ![Len(m)].owner = o, ![Len(m)].ship_count = tc]
        /\ ships = << >>
        /\ selected_planet = None
        /\ player_abilities = AbilitySet
        /\ enemy_abilities = AbilitySet
        /\ player_stats_tracker = StatsTracker
        /\ enemy_stats_tracker = StatsTracker
        /\ tactical_penalties = 0
        /\ game_time = 0
        /\ ai = SimpleAI(d)
        /\ arrivals = << >>
        /\ elapsed = [s \in Sides |-> [k \in Kinds |-> 0]]
        /\ ticks = 0
        /\ commands = 0
        /\ last = NoCall
        /\ gen = Generated(m)

\* ai._should_attack(source, target, game_state), from a planet of the
\* Enemy at a planet of the Player or a Neutral one.
ShouldAttackCall(source, target) ==
    /\ planets[source].owner = "Enemy"
    /\ planets[target].owner \in {"Player", "Neutral"}
    /\ Call(Game, 0, "_should_attack", <<source, target>>,
            ShouldAttack(planets, ai.difficulty, source, target))
    /\ UNCHANGED arrivals

NextGate ==
    \E source \in 1..Len(planets), target \in 1..Len(planets) :
        ShouldAttackCall(source, target)

SpecGate == InitAI /\ [][NextGate]_vars

DecisionDts == {TicksPerSec \div 2} \cup DtChoices

\* The dt's of the make_decision calls so far, summed from the last call at
\* which the sum had reached the opponent's interval.
SinceDecision ==
    IF last.op = "make_decision"
    THEN IF last.args[2] < (CASE ai.difficulty = "easy" -> 3 * TicksPerSec
                              [] ai.difficulty = "medium" -> 2 * TicksPerSec
                              [] OTHER -> TicksPerSec)
         THEN last.args[2]
         ELSE 0
    ELSE 0

\* ai.make_decision(game_state, dt): the actions are returned, not executed.
MakeDecisionCall(dt) ==
    /\ \E decision \in {MakeDecision(Game, dt)} :
           Call(decision.game, 0, "make_decision", <<dt, SinceDecision + dt>>,
                decision.actions)
    /\ UNCHANGED arrivals

NextDecision == \E dt \in DecisionDts : MakeDecisionCall(dt)

SpecDecision == InitAI /\ [][NextDecision]_vars

(***************************************************************************)
(* update(dt) on games in progress: the centre planet held by some side,   *)
(* fleets on their way to it, abilities running.                           *)
(***************************************************************************)
GarrisonCounts == {10, 25}
InboundSizes == {5, 30}
\* Ticks a fleet has flown from its home planet: just launched, or 4 ticks
\* from the centre planet (the flight takes a second).
FlownTicks == {0, 20}
\* Ticks an ability still has to run.
RemainingTicks == {4, 24, 48}
UpdateDts == {4} \cup DtChoices

\* An ability activated on target that has time_remaining left.
Running(a, target, time_remaining) ==
    AbilityUpdate(Activate(a, target), a.duration - time_remaining)

\* A fleet of a side from its home planet to the centre planet of pl.
Inbound(pl, owner, fleet_size, flown) ==
    ShipUpdate(Ship(pl, IF owner = "Player" THEN 1 ELSE 2, Len(pl), owner,
                    fleet_size), flown)

InboundFleets(pl) ==
    {Inbound(pl, owner, fleet_size, flown) :
         owner \in Sides, fleet_size \in InboundSizes, flown \in FlownTicks}

\* The states of the shield of the centre planet's owner, and of one side's
\* Production Surge.
CentreShields(pl) ==
    {ShieldGeneratorAbility}
    \cup {Running(ShieldGeneratorAbility, Len(pl), t) : t \in RemainingTicks}

Surges ==
    {ProductionSurgeAbility}
    \cup {Running(ProductionSurgeAbility, None, t) : t \in {4, 48}}

InitUpdate ==
    \E m \in Maps, o \in CentreOwners, c \in GarrisonCounts, side \in Sides :
        LET pl == [m EXCEPT ![Len(m)].owner = o, ![Len(m)].ship_count = c]
        IN  \E shield \in IF o = "Neutral" THEN {ShieldGeneratorAbility}
                          ELSE CentreShields(pl),
               surge \in Surges,
               fleets \in {<< >>} \cup {<<f>> : f \in InboundFleets(pl)}
                          \cup {<<f1, f2>> : f1 \in InboundFleets(pl),
                                             f2 \in InboundFleets(pl)} :
                LET mine == [AbilitySet EXCEPT !.production = surge]
                    held == [AbilitySet EXCEPT !.shield = shield]
                    both == [mine EXCEPT !.shield = shield]
                    of(s) == IF s = side
                             THEN IF s = o THEN both ELSE mine
                             ELSE IF s = o THEN held ELSE AbilitySet
                IN  /\ surge = ProductionSurgeAbility => side = "Player"
                    /\ planets = pl
                    /\ ships = fleets
                    /\ selected_planet = None
                    /\ player_abilities = of("Player")
                    /\ enemy_abilities = of("Enemy")
                    /\ player_stats_tracker = StatsTracker
                    /\ enemy_stats_tracker = StatsTracker
                    /\ tactical_penalties = 0
                    /\ game_time = 0
                    /\ ai = SimpleAI("medium")
                    /\ arrivals = << >>
                    /\ elapsed = [s \in Sides |-> [k \in Kinds |->
                           IF of(s)[k].active
                           THEN of(s)[k].duration - of(s)[k].time_remaining
                           ELSE 0]]
                    /\ ticks = 0
                    /\ commands = 0
                    /\ last = NoCall
                    /\ gen = Generated(m)

NextUpdate == \E dt \in UpdateDts : Tick(dt)

SpecUpdate == InitUpdate /\ [][NextUpdate]_vars

\* The same games, no Production Surge used yet, with the recall of either
\* side between the updates.
InitPenalty ==
    /\ InitUpdate
    /\ player_abilities.production = ProductionSurgeAbility
    /\ enemy_abilities.production = ProductionSurgeAbility

NextPenalty ==
    \/ \E dt \in UpdateDts : Tick(dt)
    \/ \E owner \in Sides : RecallCall(owner)

SpecPenalty == InitPenalty /\ [][NextPenalty]_vars

(***************************************************************************)
(* make_decision on games with fleets in flight: the opponent's fleets on  *)
(* their way to the centre planet, a fleet of the Player on its way too.   *)
(***************************************************************************)
HomeCounts == {10, 40, 100}
EnemyFleetCounts == {0, 2, 3}
EnemyFleetSizes == {1, 30}
PlayerFleetSizes == {0, 50}

InitHeuristic ==
    \E m \in Maps, d \in Difficulties, pc \in HomeCounts, sc \in HomeCounts,
       n \in EnemyFleetCounts, size \in EnemyFleetSizes, mine \in PlayerFleetSizes :
        LET pl == [m EXCEPT ![1].ship_count = pc, ![2].ship_count = sc]
        IN  /\ planets = pl
            /\ ships = [i \in 1..n |-> Inbound(pl, "Enemy", size, 0)]
                       \o (IF mine > 0 THEN <<Inbound(pl, "Player", mine, 0)>>
                           ELSE << >>)
            /\ selected_planet = None
            /\ player_abilities = AbilitySet
            /\ enemy_abilities = AbilitySet
            /\ player_stats_tracker = StatsTracker
            /\ enemy_stats_tracker = StatsTracker
            /\ tactical_penalties = 0
            /\ game_time = 0
            /\ ai = SimpleAI(d)
            /\ arrivals = << >>
            /\ elapsed = [s \in Sides |-> [k \in Kinds |-> 0]]
            /\ ticks = 0
            /\ commands = 0
            /\ last = NoCall
            /\ gen = Generated(m)

SpecHeuristic == InitHeuristic /\ [][NextDecision]_vars

(***************************************************************************)
(* update(dt) and activate_recall on games in which the centre planet has  *)
(* launched a fleet at the other side's home planet and a fleet of the     *)
(* other side is 4 ticks from the centre planet.                           *)
(***************************************************************************)
OutboundSizes == {5, 30}

\* The fleet the owner of the centre planet launched from it.
Outbound(pl, owner, fleet_size) ==
    Ship(pl, Len(pl), IF owner = "Player" THEN 2 ELSE 1, owner, fleet_size)

InitOrigin ==
    \E m \in Maps, o \in Sides, c \in GarrisonCounts, out \in OutboundSizes,
       size \in InboundSizes, d \in Difficulties :
        LET pl == [m EXCEPT ![Len(m)].owner = o, ![Len(m)].ship_count = c]
            other == IF o = "Player" THEN "Enemy" ELSE "Player"
        IN  /\ planets = pl
            /\ ships = <<Outbound(pl, o, out), Inbound(pl, other, size, 20)>>
            /\ selected_planet = None
            /\ player_abilities = AbilitySet
            /\ enemy_abilities = AbilitySet
            /\ player_stats_tracker = StatsTracker
            /\ enemy_stats_tracker = StatsTracker
            /\ tactical_penalties = 0
            /\ game_time = 0
            /\ ai = SimpleAI(d)
            /\ arrivals = << >>
            /\ elapsed = [s \in Sides |-> [k \in Kinds |-> 0]]
            /\ ticks = 0
            /\ commands = 0
            /\ last = NoCall
            /\ gen = Generated(m)

SpecOrigin == InitOrigin /\ [][NextPenalty]_vars

(***************************************************************************)
(* Clicks and updates on games against the hard opponent in which the      *)
(* Player holds the centre planet and may have it selected while a fleet   *)
(* of the Enemy approaches it.                                             *)
(***************************************************************************)
InitSelection ==
    \E m \in Maps, c \in GarrisonCounts, d \in {"hard"} :
        LET pl == [m EXCEPT ![Len(m)].owner = "Player", ![Len(m)].ship_count = c]
        IN  \E fleets \in {<< >>} \cup {<<Inbound(pl, "Enemy", size, 20)>> :
                                           size \in InboundSizes},
               selected \in {None, 1, Len(pl)} :
                /\ planets = pl
                /\ ships = fleets
                /\ selected_planet = selected
                /\ player_abilities = AbilitySet
                /\ enemy_abilities = AbilitySet
                /\ player_stats_tracker = StatsTracker
                /\ enemy_stats_tracker = StatsTracker
                /\ tactical_penalties = 0
                /\ game_time = 0
                /\ ai = SimpleAI(d)
                /\ arrivals = << >>
                /\ elapsed = [s \in Sides |-> [k \in Kinds |-> 0]]
                /\ ticks = 0
                /\ commands = 0
                /\ last = NoCall
                /\ gen = Generated(m)

\* input_handler._handle_click at a position on clicked_planet (None: empty
\* space), recorded with the selection it found and the owner of the
\* selected planet.
ClickCall(clicked_planet, slider) ==
    /\ Call(HandleClick(Game, clicked_planet, slider), 0, "_handle_click",
            <<clicked_planet, slider, selected_planet,
              IF selected_planet = None THEN "None"
              ELSE planets[selected_planet].owner>>,
            TRUE)
    /\ UNCHANGED arrivals

SelectionDts == {4, TicksPerSec}

NextSelection ==
    \/ \E dt \in SelectionDts : Tick(dt)
    \/ \E c \in 0..Len(planets), slider \in SliderChoices : ClickCall(c, slider)

SpecSelection == InitSelection /\ [][NextSelection]_vars

(***************************************************************************)
(* Ship.update called repeatedly on a launched fleet, as the tests of      *)
(* TestShipUpdate call it, with any dt of FlightDts at each call.          *)
(***************************************************************************)
\* Pixels from its target beyond which the position of a fleet is not
\* followed further.
FlightRange == 1000
FlightDts == {1, 4} \cup DtChoices
FlightSizes == {1, 25}

InRange(s) ==
    Within(s.target_x * TicksPerSec - s.x, s.target_y * TicksPerSec - s.y,
           FlightRange * TicksPerSec)

InitFlight ==
    \E m \in Maps, owner \in Sides, fleet_size \in FlightSizes :
      \E source \in 1..Len(m), target \in 1..Len(m) :
        /\ source # target
        /\ planets = m
        /\ ships = <<Ship(m, source, target, owner, fleet_size)>>
        /\ selected_planet = None
        /\ player_abilities = AbilitySet
        /\ enemy_abilities = AbilitySet
        /\ player_stats_tracker = StatsTracker
        /\ enemy_stats_tracker = StatsTracker
        /\ tactical_penalties = 0
        /\ game_time = 0
        /\ ai = SimpleAI("medium")
        /\ arrivals = << >>
        /\ elapsed = [s \in Sides |-> [k \in Kinds |-> 0]]
        /\ ticks = 0
        /\ commands = 0
        /\ last = NoCall
        /\ gen = Generated(m)

\* ship.update(dt) on every fleet of the list.  A fleet starts within
\* FlightRange of its target and flies in a fixed direction, so a fleet out
\* of range has passed its target and every further update takes it farther
\* away, not arrived: its position is not followed beyond the range.
ShipUpdateCall(dt) ==
    /\ ships' = [i \in 1..Len(ships) |->
                    IF InRange(ships[i]) THEN ShipUpdate(ships[i], dt)
                    ELSE ships[i]]
    /\ last' = [op |-> "ship_update", args |-> <<dt>>, result |-> TRUE]
    /\ UNCHANGED <<planets, selected_planet, player_abilities, enemy_abilities,
                   player_stats_tracker, enemy_stats_tracker, tactical_penalties,
                   game_time, ai, arrivals, elapsed, ticks, commands, gen>>

NextFlight == \E dt \in FlightDts : ShipUpdateCall(dt)

\* The updates keep coming.
SpecFlight == InitFlight /\ [][NextFlight]_vars /\ WF_vars(NextFlight)

(***************************************************************************)
(* Properties of arrival resolution, stated over the recorded arrivals.    *)
(***************************************************************************)
Resolved == {arrivals[i] : i \in 1..Len(arrivals)}

\* The Shield of the planet's owner was active on the planet when r resolved.
OwnShieldOn(r) ==
    \/ /\ r.planet_before.owner = "Player"
       /\ r.player_shield.active
       /\ r.player_shield.target = r.ship.target_planet
    \/ /\ r.planet_before.owner = "Enemy"
       /\ r.enemy_shield.active
       /\ r.enemy_shield.target = r.ship.target_planet

IsAttack(r) == r.ship.owner # r.planet_before.owner

\* C1: a fleet of size f arriving at a planet of another owner that holds
\* d > f ships, with no active shield of the planet's owner on it, leaves the
\* planet with its owner and exactly d - f ships.
C1_FailedAttack ==
    \A r \in Resolved :
        (/\ IsAttack(r)
         /\ ~OwnShieldOn(r)
         /\ r.planet_before.ship_count > r.ship.fleet_size)
        => /\ r.planet_after.owner = r.planet_before.owner
           /\ r.planet_after.ship_count =
                  r.planet_before.ship_count - r.ship.fleet_size

C1_Witness ==
    \E r \in Resolved :
        /\ IsAttack(r)
        /\ ~OwnShieldOn(r)
        /\ r.planet_before.ship_count > r.ship.fleet_size
        /\ r.planet_before.owner # "Neutral"
        /\ \/ r.player_shield.active
           \/ r.enemy_shield.active

\* C2: an unshielded attack of size f on a planet with d ships makes the
\* fleet's owner the planet's owner, with 0 ships when f = d and with f - d
\* ships when f > d.
C2_Capture ==
    \A r \in Resolved :
        (/\ IsAttack(r)
         /\ ~OwnShieldOn(r)
         /\ r.ship.fleet_size >= r.planet_before.ship_count)
        => /\ r.planet_after.owner = r.ship.owner
           /\ r.planet_after.ship_count =
                  r.ship.fleet_size - r.planet_before.ship_count

C2_Witness ==
    /\ \E r \in Resolved :
           /\ IsAttack(r) /\ ~OwnShieldOn(r)
           /\ r.ship.fleet_size = r.planet_before.ship_count
           /\ r.planet_before.ship_count > 0
           /\ r.planet_before.owner # "Neutral"

\* The damage C3 states for the arrival r.
C3_Damage(r) ==
    IF OwnShieldOn(r) THEN r.ship.fleet_size \div 2 ELSE r.ship.fleet_size

\* C3: an attacking fleet of size f does floor(f/2) damage exactly when the
\* Shield of the planet's current owner is active and targets the planet,
\* and the full f in every other case: the planet is left with d minus the
\* damage and its owner if that is positive, and otherwise with the
\* attacker as owner and the damage minus d.
C3_ShieldHalving ==
    \A r \in Resolved :
        IsAttack(r) =>
            LET d == r.planet_before.ship_count
                damage == C3_Damage(r)
            IN  IF d > damage
                THEN /\ r.planet_after.owner = r.planet_before.owner
                     /\ r.planet_after.ship_count = d - damage
                ELSE /\ r.planet_after.owner = r.ship.owner
                     /\ r.planet_after.ship_count = damage - d

\* A shielded attack by an odd fleet whose outcome differs from that of the
\* full force.
C3_Witness ==
    \E r \in Resolved :
        /\ IsAttack(r)
        /\ OwnShieldOn(r)
        /\ r.ship.fleet_size % 2 = 1
        /\ r.ship.fleet_size > r.planet_before.ship_count
        /\ r.planet_after.owner = r.planet_before.owner

\* C4: a fleet arriving at a planet of its own owner adds exactly its size
\* to the planet's ship_count, leaves the owner, and changes neither side's
\* battles_won and battles_lost nor tactical_penalties.
C4_Reinforcement ==
    \A r \in Resolved :
        ~IsAttack(r) =>
            /\ r.planet_after.ship_count =
                   r.planet_before.ship_count + r.ship.fleet_size
            /\ r.planet_after.owner = r.planet_before.owner
            /\ r.stats_after = r.stats_before

C4_Witness ==
    \E r \in Resolved :
        /\ ~IsAttack(r)
        /\ r.ship.fleet_size > 0
        /\ OwnShieldOn(r)

(***************************************************************************)
(* Properties of the planets and of the launches.                          *)
(***************************************************************************)
\* C5: in every state reachable from a generated map by updates, launches
\* (of the AI and by clicks), arrivals and ability activations, every
\* planet's ship_count is at least 0.
C5_ShipCountNonNegative ==
    \A p \in 1..Len(planets) : planets[p].ship_count >= 0

\* A planet stands at exactly 0 ships while fleets fly and after the latest
\* update resolved an arrival that changed a planet's owner.
C5_Witness ==
    /\ \E p \in 1..Len(planets) : planets[p].ship_count = 0
    /\ ships # << >>
    /\ \E r \in Resolved : r.planet_after.owner # r.planet_before.owner

\* The fleet _send_fleet(s, t, n) appends when it launches m ships.
C6_Launched(s, t, m) ==
    /\ Len(ships') = Len(ships) + 1
    /\ SubSeq(ships', 1, Len(ships)) = ships
    /\ ships'[Len(ships')].fleet_size = m
    /\ ships'[Len(ships')].owner = planets[s].owner
    /\ ships'[Len(ships')].source_planet = s
    /\ ships'[Len(ships')].target_planet = t
    /\ planets' = [planets EXCEPT ![s].ship_count = @ - m]

\* C6: _send_fleet(source, target, n) from a source holding s ships launches
\* m = min(n, s) ships: if m > 0 the source loses exactly m ships and exactly
\* one fleet of size m owned by the source's owner is appended to the fleet
\* list; if m <= 0 neither the planets nor the fleets change.
C6_SendFleet ==
    [][(commands' # commands /\ last'.op = "_send_fleet") =>
           LET s == last'.args[1]
               t == last'.args[2]
               n == last'.args[3]
               m == Min(n, planets[s].ship_count)
           IN  IF m > 0
               THEN C6_Launched(s, t, m)
               ELSE UNCHANGED <<planets, ships>>]_vars

\* The latest call was a _send_fleet that asked for more ships than the
\* source held and launched what it held.
C6_Witness ==
    /\ last.op = "_send_fleet"
    /\ ships # << >>
    /\ LET fleet == ships[Len(ships)]
       IN  /\ fleet.source_planet = last.args[1]
           /\ fleet.fleet_size < last.args[3]
           /\ planets[last.args[1]].ship_count = 0

(***************************************************************************)
(* Properties of the abilities.                                            *)
(***************************************************************************)
\* The step is a direct call of the method op.
Called(op) == commands' # commands /\ last'.op = op

\* The ability an activation call addresses: its side and its kind.
CalledSide == IF last'.op = "activate_shield" THEN last'.args[2] ELSE last'.args[1]
CalledKind ==
    IF last'.op = "activate_recall" THEN "recall"
    ELSE IF last'.op = "activate_production_surge" THEN "production"
    ELSE "shield"

AbilityOf(o, k) == IF o = "Player" THEN player_abilities[k] ELSE enemy_abilities[k]

\* The same ability after the step.
AbilityAfter(o, k) == IF o = "Player" THEN player_abilities'[k] ELSE enemy_abilities'[k]

\* C7: for every ability kind, once an activation has succeeded (the ability
\* is no longer available), available never becomes true again, and every
\* later activation call, after any updates and after expiry, returns false
\* and leaves available, active, time_remaining and target as they were.
C7_SingleUse ==
    [][/\ \A o \in Sides, k \in Kinds :
              ~AbilityOf(o, k).available => ~AbilityAfter(o, k).available
       /\ (/\ \/ Called("activate_recall")
              \/ Called("activate_production_surge")
              \/ Called("activate_shield")
           /\ ~AbilityOf(CalledSide, CalledKind).available)
          => /\ last'.result = FALSE
             /\ AbilityAfter(CalledSide, CalledKind) = AbilityOf(CalledSide, CalledKind)]_vars

\* The latest call tried to activate a timed ability that had expired.
C7_Witness ==
    /\ last.op = "activate_production_surge"
    /\ last.result = FALSE
    /\ LET a == AbilityOf(last.args[1], "production")
       IN  ~a.available /\ ~a.active /\ elapsed[last.args[1]]["production"] >= a.duration

\* What C8 states of the ability a when the dt's since its activation sum to S.
C8_Timing(a, S) ==
    IF a.available
    THEN ~a.active /\ a.time_remaining = 0 /\ a.target = None
    ELSE IF a.duration = 0
    THEN a.active /\ a.time_remaining = 0
    ELSE IF S < a.duration
    THEN a.active /\ a.time_remaining = a.duration - S
    ELSE ~a.active /\ a.time_remaining = 0 /\ a.target = None

\* C8: a timed ability activated with duration D is active with
\* time_remaining = D - S while the dt's of the updates since sum to S < D,
\* and from the first update with S >= D on it is inactive with
\* time_remaining 0 and no target; an update changes nothing of an instant
\* ability or of an inactive one (an activated instant ability stays active
\* with time_remaining 0).
C8_AbilityUpdate ==
    [][/\ \A o \in Sides, k \in Kinds : C8_Timing(AbilityAfter(o, k), elapsed'[o][k])
       /\ Called("update") =>
              \A o \in Sides, k \in Kinds :
                  (AbilityOf(o, k).duration = 0 \/ ~AbilityOf(o, k).active)
                  => AbilityAfter(o, k) = AbilityOf(o, k)]_vars

\* Two updates of one second each have run since a timed ability was
\* activated, and it is still active.
C8_Witness ==
    /\ last.op = "update"
    /\ \E o \in Sides, k \in Kinds :
           /\ AbilityOf(o, k).duration > 0
           /\ AbilityOf(o, k).active
           /\ elapsed[o][k] = 2 * TicksPerSec

\* The ships of the fleets of owner that started from planet p.
C9_InFlight(owner, p) ==
    SeqSum([i \in 1..Len(ships) |->
                IF ships[i].owner = owner /\ ships[i].source_planet = p
                THEN ships[i].fleet_size ELSE 0],
           Len(ships))

\* C9: a successful activate_recall(side) adds the size of each active fleet
\* of the side to the fleet's origin planet exactly once and leaves no fleet
\* of the side (the other fleets stay, in order); an activate_recall(side)
\* after that returns false and changes neither planets nor fleets.
C9_Recall ==
    [][Called("activate_recall") =>
           LET owner == last'.args[1]
           IN  /\ ~AbilityOf(owner, "recall").available => last'.result = FALSE
               /\ IF last'.result
                  THEN /\ planets' = [p \in 1..Len(planets) |->
                              [planets[p] EXCEPT !.ship_count = @ + C9_InFlight(owner, p)]]
                       /\ ships' = SelectSeq2(ships, LAMBDA s : s.owner # owner)
                  ELSE UNCHANGED <<planets, ships>>]_vars

\* The latest call recalled two fleets of a side or more.
C9_Witness ==
    /\ last.op = "activate_recall"
    /\ last.result = TRUE
    /\ last.args[2] >= 2

\* C10: activate_shield(planet, side) returns false and changes nothing when
\* the planet's owner is not the side; when the owner is the side and the
\* side's shield is available, it returns true and the shield is active with
\* the planet as target and 15 seconds remaining.
C10_ActivateShield ==
    [][Called("activate_shield") =>
           LET planet == last'.args[1]
               side == last'.args[2]
           IN  IF planets[planet].owner # side
               THEN last'.result = FALSE /\ Game' = Game
               ELSE AbilityOf(side, "shield").available =>
                        /\ last'.result = TRUE
                        /\ AbilityAfter(side, "shield").active
                        /\ AbilityAfter(side, "shield").target = planet
                        /\ AbilityAfter(side, "shield").time_remaining =
                               shield_duration * TicksPerSec]_vars

\* The latest call was refused for a planet of the other side, and the
\* side's shield is still available, inactive and without target.
C10_Witness ==
    /\ last.op = "activate_shield"
    /\ last.result = FALSE
    /\ planets[last.args[1]].owner # last.args[2]
    /\ planets[last.args[1]].owner # "Neutral"
    /\ LET a == AbilityOf(last.args[2], "shield")
       IN  a.available /\ ~a.active /\ a.target = None

(***************************************************************************)
(* Properties of the end of the game.                                      *)
(***************************************************************************)
\* The side holds no planet and has no fleet in transit.
Eliminated(side) ==
    /\ \A p \in 1..Len(planets) : planets[p].owner # side
    /\ \A s \in 1..Len(ships) : ships[s].owner # side

\* C11: check_game_over returns "victory" exactly when the Enemy holds no
\* planet and has no fleet, "defeat" exactly when the Player holds no planet
\* and has no fleet while the Enemy is not eliminated, and None otherwise; a
\* side without planets but with a fleet in transit is not eliminated.
C11_CheckGameOver ==
    /\ CheckGameOver(Game) = "victory" <=> Eliminated("Enemy")
    /\ CheckGameOver(Game) = "defeat"
           <=> (Eliminated("Player") /\ ~Eliminated("Enemy"))
    /\ CheckGameOver(Game) = "None"
           <=> (~Eliminated("Player") /\ ~Eliminated("Enemy"))

C11_Witness ==
    /\ \E side \in Sides :
           /\ \A p \in 1..Len(planets) : planets[p].owner # side
           /\ \E s \in 1..Len(ships) : ships[s].owner = side
    /\ CheckGameOver(Game) = "None"
    /\ ticks > 0

\* C12: once check_game_over has returned "victory" it returns "victory"
\* after every further update, click and ability key, and likewise "defeat".
C12_Terminal ==
    [][/\ CheckGameOver(Game) = "victory" => CheckGameOver(Game)' = "victory"
       /\ CheckGameOver(Game) = "defeat" => CheckGameOver(Game)' = "defeat"]_vars

C12_Witness ==
    /\ CheckGameOver(Game) \in {"victory", "defeat"}
    /\ ticks = MaxEndTicks
    /\ commands > 0
    /\ Len(arrivals) > 0

\* C13: in a constructed game the victory condition (the Enemy has no planet
\* and no fleet) and the defeat condition (the Player has no planet and no
\* fleet) never hold together.
C13_NeverBoth ==
    gen.done => ~(Eliminated("Enemy") /\ Eliminated("Player"))

(***************************************************************************)
(* The final score.                                                        *)
(***************************************************************************)
\* The time bonus of a game time in ticks.
C14_TimeBonus(t) ==
    CASE t < 60 * TicksPerSec -> 50
      [] t >= 60 * TicksPerSec /\ t < 120 * TicksPerSec -> 30
      [] t >= 120 * TicksPerSec /\ t < 180 * TicksPerSec -> 15
      [] t >= 180 * TicksPerSec /\ t < 300 * TicksPerSec -> 5
      [] OTHER -> 0

\* C14: calculate_final_score returns max(0, 100 - tactical_penalties) plus
\* the time bonus (50 below 60 s, 30 below 120 s, 15 below 180 s, 5 below
\* 300 s, else 0), a value from 0 to 150.
C14_FinalScore ==
    last.op = "calculate_final_score" =>
        /\ last.result = (IF tactical_penalties > 100 THEN 0
                          ELSE 100 - tactical_penalties)
                         + C14_TimeBonus(game_time)
        /\ last.result >= 0
        /\ last.result <= 150

C14_Witness ==
    /\ last.op = "calculate_final_score"
    /\ tactical_penalties > 100
    /\ game_time = 120 * TicksPerSec - 1
    /\ last.result = 30

(***************************************************************************)
(* Production.                                                             *)
(***************************************************************************)
\* C15: with no combat, a planet of a side that started with 50 ships holds
\* 50 + floor(T * r) ships, within one, after the updates of a total time T,
\* whether T came as one large dt or as many small ones.
C15_Production ==
    \A p \in 1..Len(planets) :
        planets[p].owner # "Neutral" =>
            Abs(planets[p].ship_count
                - (start_ships
                   + (game_time * planets[p].production_rate) \div TicksPerSec))
                <= 1

(***************************************************************************)
(* Properties of the generated map.                                        *)
(***************************************************************************)
\* The centres of p and q are at least the sum of the radii plus gap apart.
Apart(p, q, gap) ==
    Sq(p.x - q.x) + Sq(p.y - q.y) >= Sq(p.radius + q.radius + gap)

LeftSide == {i \in 1..Len(planets) : planets[i].x < gen.width \div 2}
RightSide == {i \in 1..Len(planets) : planets[i].x > gen.width - gen.width \div 2}
CenterLine == {i \in 1..Len(planets) : planets[i].x = gen.width \div 2}

\* C16: for every left planet at (x, y, r) there is a planet at
\* (screen_width - x, y, r), of the Enemy if the left one is the Player's and
\* Neutral if the left one is Neutral.
C16_Mirrored ==
    gen.done =>
        \A i \in LeftSide :
            \E j \in 1..Len(planets) :
                /\ planets[j].x = gen.width - planets[i].x
                /\ planets[j].y = planets[i].y
                /\ planets[j].radius = planets[i].radius
                /\ planets[i].owner = "Player" => planets[j].owner = "Enemy"
                /\ planets[i].owner = "Neutral" => planets[j].owner = "Neutral"
                /\ planets[i].owner \in {"Player", "Neutral"}

C16_Witness ==
    /\ gen.done
    /\ Cardinality(LeftSide) = 3
    /\ \E i \in LeftSide, j \in RightSide :
           /\ planets[j].x = gen.width - planets[i].x
           /\ planets[j].y = planets[i].y
           /\ planets[i].owner = "Neutral"
           /\ planets[j].ship_count # planets[i].ship_count

C18_SameSideGap ==
    gen.done =>
        \A i \in 1..Len(planets), j \in 1..Len(planets) :
            (/\ i # j
             /\ \/ {i, j} \subseteq LeftSide
                \/ {i, j} \subseteq RightSide)
            => Apart(planets[i], planets[j], 180)

C18_Witness ==
    /\ gen.done
    /\ Cardinality(RightSide) = 3
    /\ \E i \in RightSide, j \in RightSide :
           /\ i # j
           /\ Sq(planets[i].x - planets[j].x) + Sq(planets[i].y - planets[j].y)
                  < Sq(planets[i].radius + planets[j].radius + 180 + 30)

\* C19: when the full number of planets was placed, any two planets, a left
\* and a right one and the centre one with any other included, are at least
\* the sum of their radii plus 180 apart.
C19_AllPairsGap ==
    (gen.done /\ Len(gen.left_planets) = planets_per_side(gen.map_size)) =>
        \A i \in 1..Len(planets), j \in 1..Len(planets) :
            i # j => Apart(planets[i], planets[j], 180)

\* C20: no two planets of a generated map overlap: the centres of any two
\* are at least the sum of their radii apart.
C20_NoOverlap ==
    gen.done =>
        \A i \in 1..Len(planets), j \in 1..Len(planets) :
            i # j => Apart(planets[i], planets[j], 0)

\* C21: no left planet of a generated map has its centre in the top-left UI
\* rectangle: none has x < 350 and y < 320.
C21_OutsideUIZone ==
    /\ \A i \in 1..Len(gen.left_planets) :
           ~(gen.left_planets[i].x < 350 /\ gen.left_planets[i].y < 320)
    /\ gen.done =>
           \A i \in LeftSide : ~(planets[i].x < 350 /\ planets[i].y < 320)

C21_Witness ==
    /\ gen.done
    /\ gen.attempts > Len(gen.left_planets)
    /\ \E i \in LeftSide : planets[i].x < 350 /\ planets[i].y >= 320
    /\ \E i \in LeftSide : planets[i].x >= 350 /\ planets[i].y < 320

\* C22: a generated map has exactly one planet of the Player, the first left
\* planet, and exactly one of the Enemy, its mirror, each with 50 ships; the
\* other left and right planets are Neutral with 15 to 30 ships, the centre
\* planet is Neutral with 20 to 35 ships; every constructed game has a planet
\* of the Player and a planet of the Enemy.
C22_StartingOwnership ==
    gen.done =>
        /\ Cardinality({i \in 1..Len(planets) : planets[i].owner = "Player"}) = 1
        /\ Cardinality({i \in 1..Len(planets) : planets[i].owner = "Enemy"}) = 1
        /\ planets[1].owner = "Player"
        /\ \A i \in 1..Len(planets) :
               /\ planets[i].owner \in {"Player", "Enemy"} =>
                      planets[i].ship_count = 50
               /\ planets[i].owner = "Player" =>
                      \E j \in RightSide :
                          /\ planets[j].owner = "Enemy"
                          /\ planets[j].x = gen.width - planets[i].x
                          /\ planets[j].y = planets[i].y
               /\ (i \in LeftSide \cup RightSide /\ planets[i].owner = "Neutral") =>
                      (planets[i].ship_count >= 15 /\ planets[i].ship_count <= 30)
               /\ i \in CenterLine =>
                      /\ planets[i].owner = "Neutral"
                      /\ planets[i].ship_count >= 20
                      /\ planets[i].ship_count <= 35

(***************************************************************************)
(* Properties of the opponent.                                             *)
(***************************************************************************)
\* C23: with ships_to_send the floor of the source's ship count times the
\* aggression (0.3 easy, 0.5 medium, 0.7 hard), _should_attack is false when
\* ships_to_send is 0, true against a Neutral target exactly when
\* ships_to_send exceeds its ship count, and true against a target of the
\* Player exactly when ships_to_send exceeds its ship count times the safety
\* margin (1.5 easy, 1.2 medium and hard).
C23_AttackGate ==
    last.op = "_should_attack" =>
        LET source == planets[last.args[1]]
            target == planets[last.args[2]]
            tenths == CASE ai.difficulty = "easy" -> 3
                        [] ai.difficulty = "medium" -> 5
                        [] OTHER -> 7
            ships_to_send == (source.ship_count * tenths) \div 10
        IN  last.result =
                (/\ ships_to_send # 0
                 /\ \/ /\ target.owner = "Neutral"
                       /\ ships_to_send > target.ship_count
                    \/ /\ target.owner = "Player"
                       /\ IF ai.difficulty = "easy"
                          THEN 10 * ships_to_send > 15 * target.ship_count
                          ELSE 10 * ships_to_send > 12 * target.ship_count)

\* C24: make_decision leaves the planets, the fleets and the six abilities
\* as they were, on every difficulty.
C24_DecisionFrame ==
    [][Called("make_decision") =>
           /\ planets' = planets
           /\ ships' = ships
           /\ player_abilities' = player_abilities
           /\ enemy_abilities' = enemy_abilities]_vars

\* C30: make_decision returns no action while the dt accumulated since the
\* last decision is below the interval (3 s easy, 2 s medium, 1 s hard); when
\* it reaches the interval the decision is taken and the timer restarts at 0.
C30_DecisionTiming ==
    last.op = "make_decision" =>
        LET since == last.args[2]
            interval == CASE ai.difficulty = "easy" -> 3 * TicksPerSec
                          [] ai.difficulty = "medium" -> 2 * TicksPerSec
                          [] OTHER -> TicksPerSec
        IN  /\ since < interval =>
                   /\ last.result = << >>
                   /\ ai.decision_timer = since
            /\ since >= interval => ai.decision_timer = 0

C30_Witness ==
    /\ last.op = "make_decision"
    /\ ai.difficulty = "easy"
    /\ commands = 3
    /\ last.args = <<TicksPerSec, 3 * TicksPerSec>>
    /\ last.result # << >>

(***************************************************************************)
(* Properties of update(dt), stated over one tick.                         *)
(***************************************************************************)
\* The step is an update; its dt.
Ticked == ticks' # ticks
TickDt == game_time' - game_time

\* The arrivals the step resolved.
Arrived == IF Ticked THEN arrivals' ELSE << >>

\* The planet is the target of an arrival of the step.
Targeted(p) == \E i \in 1..Len(Arrived) : Arrived[i].ship.target_planet = p

\* The production timer after dt more ticks at per_ship ticks a ship.
TimerAfter(timer, dt, per_ship) ==
    IF timer + dt >= per_ship THEN timer + dt - per_ship ELSE timer + dt

\* C25: in one update the abilities advance before fleets arrive and before
\* production: a Shield with time_remaining <= dt at the start of the tick
\* does not halve an attack arriving in the tick, a Production Surge with
\* time_remaining <= dt does not double the production of the tick; fleets
\* the AI launches move in the same tick, and a planet captured in the tick
\* produces in it.
C25_TickOrder ==
    [][Ticked =>
        /\ \A i \in 1..Len(Arrived) :
               LET r == Arrived[i]
                   o == r.planet_before.owner
               IN  (/\ o \in Sides
                    /\ r.ship.owner # o
                    /\ AbilityOf(o, "shield").active
                    /\ AbilityOf(o, "shield").target = r.ship.target_planet
                    /\ AbilityOf(o, "shield").time_remaining <= TickDt)
                   => IF r.planet_before.ship_count > r.ship.fleet_size
                      THEN /\ r.planet_after.owner = o
                           /\ r.planet_after.ship_count =
                                  r.planet_before.ship_count - r.ship.fleet_size
                      ELSE /\ r.planet_after.owner = r.ship.owner
                           /\ r.planet_after.ship_count =
                                  r.ship.fleet_size - r.planet_before.ship_count
        /\ \A p \in 1..Len(planets) :
               LET o == planets[p].owner
               IN  (/\ o \in Sides
                    /\ ~Targeted(p)
                    /\ AbilityOf(o, "production").active
                    /\ AbilityOf(o, "production").time_remaining <= TickDt)
                   => planets'[p].production_timer =
                          TimerAfter(planets[p].production_timer, TickDt,
                                     TicksPerSec \div planets[p].production_rate)
        /\ \A i \in 1..Len(ships') :
               \/ ships'[i].x # planets[ships'[i].source_planet].x * TicksPerSec
               \/ ships'[i].y # planets[ships'[i].source_planet].y * TicksPerSec
        /\ \A p \in 1..Len(planets) :
               (Targeted(p) /\ planets'[p].owner \in Sides) =>
                   \E i \in 1..Len(Arrived) :
                       /\ Arrived[i].ship.target_planet = p
                       /\ Arrived[i].planet_after.owner = planets'[p].owner
                       /\ planets'[p].production_timer
                              # Arrived[i].planet_after.production_timer]_vars

C25_Witness ==
    /\ ticks = 1
    /\ \E r \in Resolved :
           LET o == r.planet_before.owner
           IN  /\ o \in Sides
               /\ r.ship.owner # o
               /\ elapsed[o]["shield"] = shield_duration * TicksPerSec
               /\ r.ship.fleet_size > r.planet_before.ship_count
               /\ r.ship.fleet_size \div 2 < r.planet_before.ship_count
               /\ r.planet_after.owner = r.ship.owner
    /\ \E o \in Sides : elapsed[o]["production"] = surge_duration * TicksPerSec

\* The fleets of the list at the start of the step, moved by its dt.
Moved == [i \in 1..Len(ships) |-> ShipUpdate(ships[i], TickDt)]

\* C26: every fleet that becomes arrived in an update is removed from the
\* fleet list in that update and resolved once; the arrivals of a tick are
\* resolved in list order, each seeing the planet as the previous resolution
\* left it; after the update no fleet of the list has arrived.
C26_ArrivalsResolved ==
    [][Ticked =>
        LET landed == SelectSeq2(Moved, LAMBDA s : s.arrived)
            flying == SelectSeq2(Moved, LAMBDA s : ~s.arrived)
        IN  /\ \A i \in 1..Len(ships') : ~ships'[i].arrived
            /\ Len(Arrived) >= Len(landed)
            /\ Len(ships') >= Len(flying)
            /\ \A i \in 1..Len(landed) : Arrived[i].ship = landed[i]
            /\ \A i \in 1..Len(flying) : ships'[i] = flying[i]
            /\ \A i \in (Len(landed) + 1)..Len(Arrived) :
                   /\ Arrived[i].ship.owner = "Enemy"
                   /\ Arrived[i].ship.arrived
                   /\ Arrived[i].ship \notin {Moved[j] : j \in 1..Len(ships)}
            /\ \A i \in (Len(flying) + 1)..Len(ships') :
                   ships'[i].owner = "Enemy"
            /\ \A i \in 1..Len(Arrived) :
                   LET t == Arrived[i].ship.target_planet
                       earlier == {k \in 1..(i - 1) :
                                       Arrived[k].ship.target_planet = t}
                   IN  IF earlier = {}
                       THEN /\ Arrived[i].planet_before.owner = planets[t].owner
                            /\ planets[t].owner # "Enemy" =>
                                   Arrived[i].planet_before = planets[t]
                       ELSE \E k \in earlier :
                                /\ \A k2 \in earlier : k2 <= k
                                /\ Arrived[i].planet_before = Arrived[k].planet_after]_vars

C26_Witness ==
    /\ ticks > 0
    /\ ships = << >>
    /\ Len(arrivals) = 2
    /\ arrivals[1].ship.owner = arrivals[2].ship.owner
    /\ arrivals[1].planet_before.owner # arrivals[1].ship.owner
    /\ arrivals[1].planet_after.owner = arrivals[1].ship.owner
    /\ arrivals[2].planet_before = arrivals[1].planet_after
    /\ arrivals[2].planet_after.ship_count =
           arrivals[1].planet_after.ship_count + arrivals[2].ship.fleet_size


\* The fleet list in the opposite order.
Reversed(s) == [i \in 1..Len(s) |-> s[Len(s) + 1 - i]]

\* The planets after the same update with the fleets resolved in the
\* opposite order.
PlanetsReversed == Update([Game EXCEPT !.ships = Reversed(ships)], TickDt).game.planets

\* The step resolved two or more arrivals at the planet.
Contested(p) ==
    \E i, j \in 1..Len(Arrived) :
        /\ i # j
        /\ Arrived[i].ship.target_planet = p
        /\ Arrived[j].ship.target_planet = p

\* All arrivals of the step at the planet are fleets of one side.
OneSided(p) ==
    \A i, j \in 1..Len(Arrived) :
        (/\ Arrived[i].ship.target_planet = p
         /\ Arrived[j].ship.target_planet = p)
        => Arrived[i].ship.owner = Arrived[j].ship.owner

\* A Shield is active on the planet in the step, after the ability update.
ShieldOn(p) ==
    \E o \in Sides : /\ AbilityAfter(o, "shield").active
                     /\ AbilityAfter(o, "shield").target = p

\* C27 as stated: for the fleets arriving at the same planet in the same
\* tick, the planet's final owner and ship_count are the same for every order
\* in which those fleets are resolved.
C27_OrderIndependent ==
    [][Ticked =>
        \A p \in 1..Len(planets) :
            Contested(p) =>
                /\ PlanetsReversed[p].owner = planets'[p].owner
                /\ PlanetsReversed[p].ship_count = planets'[p].ship_count]_vars

\* C27 amended: when the fleets arriving at a planet in the same tick all
\* belong to one side and no Shield is active on the planet, the planet's
\* final owner and ship_count are the same for every order in which those
\* fleets are resolved.
C27_OneSideOrderIndependent ==
    [][Ticked =>
        \A p \in 1..Len(planets) :
            (Contested(p) /\ OneSided(p) /\ ~ShieldOn(p)) =>
                /\ PlanetsReversed[p].owner = planets'[p].owner
                /\ PlanetsReversed[p].ship_count = planets'[p].ship_count]_vars

C27_Witness ==
    /\ ticks > 0
    /\ Len(arrivals) = 2
    /\ arrivals[1].ship.target_planet = arrivals[2].ship.target_planet
    /\ arrivals[1].ship.owner = arrivals[2].ship.owner
    /\ arrivals[1].ship.fleet_size < arrivals[2].ship.fleet_size
    /\ ~arrivals[1].player_shield.active
    /\ ~arrivals[1].enemy_shield.active
    /\ arrivals[1].planet_before.owner # arrivals[1].ship.owner
    /\ arrivals[1].planet_after.owner = arrivals[1].planet_before.owner
    /\ arrivals[2].planet_after.owner = arrivals[2].ship.owner


\* The arrivals of the step that captured a planet the Player held, and the
\* Player fleets of the step whose attack left the defender holding.
PlayerPlanetsLost ==
    {i \in 1..Len(Arrived) :
         /\ Arrived[i].planet_before.owner = "Player"
         /\ Arrived[i].planet_after.owner # "Player"}

PlayerAttacksFailed ==
    {i \in 1..Len(Arrived) :
         /\ Arrived[i].ship.owner = "Player"
         /\ Arrived[i].planet_before.owner # "Player"
         /\ Arrived[i].planet_after.owner = Arrived[i].planet_before.owner}

\* C28: tactical_penalties starts at 0 and every operation adds to it 10 for
\* each arrival that captured a Player-owned planet and 5 for each Player
\* fleet whose attack left the defender holding, and nothing else: it never
\* decreases, reinforcements and recalls leave it unchanged; Player
\* battles_lost starts at 0 and grows by the sum of the two counts.
C28_Penalties ==
    /\ tactical_penalties = 0
    /\ player_stats_tracker.battles_lost = 0
    /\ [][/\ tactical_penalties' =
                 tactical_penalties + 10 * Cardinality(PlayerPlanetsLost)
                                    + 5 * Cardinality(PlayerAttacksFailed)
          /\ tactical_penalties' >= tactical_penalties
          /\ player_stats_tracker'.battles_lost =
                 player_stats_tracker.battles_lost
                     + Cardinality(PlayerPlanetsLost)
                     + Cardinality(PlayerAttacksFailed)]_vars

C28_Witness ==
    /\ tactical_penalties = 15
    /\ player_stats_tracker.battles_lost = 2
    /\ Len(arrivals) = 2
    /\ last.op = "activate_recall"
    /\ last.result


\* No fleet left the planet in the step (the AI launched none from it).
NoLaunchFrom(p) ==
    /\ \A i \in 1..Len(ships') :
           ships'[i].source_planet = p =>
               ships'[i] \in {Moved[j] : j \in 1..Len(ships)}
    /\ \A i \in 1..Len(Arrived) :
           Arrived[i].ship.source_planet = p =>
               Arrived[i].ship \in {Moved[j] : j \in 1..Len(ships)}

\* The ticks one ship takes on the planet in the step: at twice the planet's
\* rate when its owner's Production Surge is active after the ability update
\* of the step, at the planet's rate otherwise.
TicksPerShip(p) ==
    LET o == planets'[p].owner
    IN  TicksPerSec \div (planets[p].production_rate
                              * (IF AbilityAfter(o, "production").active
                                 THEN 2 ELSE 1))

\* C29: in an update, a planet whose owner's Production Surge is active after
\* the ability update of the tick accumulates production at twice its rate,
\* a planet of a side without an active surge at its rate, and a Neutral
\* planet produces nothing; in every reachable state every planet's
\* production_rate is the value its radius gave it at creation.
C29_ProductionSurge ==
    /\ [](\A p \in 1..Len(planets) :
              planets[p].production_rate = ProductionRate(planets[p].radius))
    /\ [][Ticked =>
            \A p \in 1..Len(planets) :
                IF planets'[p].owner = "Neutral"
                THEN /\ planets'[p].production_timer = planets[p].production_timer
                     /\ ~Targeted(p) => planets'[p].ship_count = planets[p].ship_count
                ELSE /\ planets'[p].production_timer =
                            TimerAfter(planets[p].production_timer, TickDt,
                                       TicksPerShip(p))
                     /\ (~Targeted(p) /\ NoLaunchFrom(p)) =>
                            planets'[p].ship_count =
                                planets[p].ship_count
                                + (IF planets[p].production_timer + TickDt
                                          >= TicksPerShip(p)
                                   THEN 1 ELSE 0)]_vars

C29_Witness ==
    /\ ticks = 1
    /\ game_time = 4
    /\ \E o \in Sides :
           /\ AbilitiesOf(Game, o).production.active
           /\ ~AbilitiesOf(Game, IF o = "Player" THEN "Enemy" ELSE "Player").production.active
           /\ \E p, q \in 1..Len(planets) :
                  /\ planets[p].owner = o
                  /\ planets[p].production_rate = planets[q].production_rate
                  /\ planets[q].owner \in Sides \ {o}
                  /\ planets[p].production_timer = 0
                  /\ planets[q].production_timer = 4


(***************************************************************************)
(* Properties of the opponent's decisions, stated over the recorded call.  *)
(***************************************************************************)
\* The actions the last make_decision returned.
Decided == IF last.op = "make_decision" THEN last.result ELSE << >>

\* The squared distance between the centres of two planets.
CentreGap(a, b) ==
    (planets[a].x - planets[b].x) * (planets[a].x - planets[b].x)
    + (planets[a].y - planets[b].y) * (planets[a].y - planets[b].y)

\* C31: the actions of one decision have pairwise different sources; every
\* action is a send_fleet from an Enemy planet holding at least
\* min_ships_to_attack ships (20, 10, 5) at a Player or Neutral planet with
\* ship_count = floor(source.ship_count * aggression) (0.3, 0.5, 0.7) and
\* 1 <= ship_count <= source.ship_count; on easy and medium no candidate is
\* nearer to the source than the target; without an Enemy planet or without
\* a candidate there is no action.
C31_ActionShape ==
    last.op = "make_decision" =>
        LET d == ai.difficulty
            tenths == IF d = "easy" THEN 3 ELSE IF d = "medium" THEN 5 ELSE 7
            least == IF d = "easy" THEN 20 ELSE IF d = "medium" THEN 10 ELSE 5
            candidates == {q \in 1..Len(planets) :
                               planets[q].owner \in {"Player", "Neutral"}}
        IN  /\ \A i, j \in 1..Len(Decided) :
                   i # j => Decided[i].source_planet # Decided[j].source_planet
            /\ \A i \in 1..Len(Decided) :
                   LET a == Decided[i]
                       source == planets[a.source_planet]
                   IN  /\ a.action = "send_fleet"
                       /\ source.owner = "Enemy"
                       /\ source.ship_count >= least
                       /\ a.target_planet \in candidates
                       /\ a.ship_count = (source.ship_count * tenths) \div 10
                       /\ 1 <= a.ship_count
                       /\ a.ship_count <= source.ship_count
                       /\ d \in {"easy", "medium"} =>
                              \A q \in candidates :
                                  CentreGap(a.source_planet, a.target_planet)
                                      <= CentreGap(a.source_planet, q)
            /\ ((\A q \in 1..Len(planets) : planets[q].owner # "Enemy")
                    \/ candidates = {})
               => Decided = << >>


\* The ships of a side: on its planets and in its fleets.
TotalShips(side) ==
    SeqSum([p \in 1..Len(planets) |->
                IF planets[p].owner = side THEN planets[p].ship_count ELSE 0],
           Len(planets))
    + SeqSum([i \in 1..Len(ships) |->
                  IF ships[i].owner = side THEN ships[i].fleet_size ELSE 0],
             Len(ships))

\* The fleets of a side in the active set.
FleetsOf(side) == {i \in 1..Len(ships) : ships[i].owner = side}

\* The step is a make_decision call at which the ability timer of the hard
\* opponent reaches the 5.0 s of the ability check.
AbilityCheck ==
    /\ last'.op = "make_decision"
    /\ commands' # commands
    /\ ai.difficulty = "hard"
    /\ ai.ability_timer + last'.args[1] >= 5 * TicksPerSec

\* The step activates the opponent's Recall.
AIRecalled == enemy_abilities.recall.available /\ ~enemy_abilities'.recall.available

\* C32: at an ability check the hard opponent activates Recall iff Recall is
\* available, the Player's total ships (on planets and in fleets) exceed
\* twice the opponent's total ships (on planets and in fleets), and the
\* opponent has at least 3 fleets in transit; a decision of the easy or the
\* medium opponent changes no ability.
C32_RecallHeuristic ==
    [][/\ AbilityCheck =>
              (AIRecalled <=>
                   /\ enemy_abilities.recall.available
                   /\ TotalShips("Player") > 2 * TotalShips("Enemy")
                   /\ Cardinality(FleetsOf("Enemy")) >= 3)
       /\ ai.difficulty \in {"easy", "medium"} =>
              /\ enemy_abilities' = enemy_abilities
              /\ player_abilities' = player_abilities]_vars


\* C33: a fleet updated repeatedly with positive dt eventually has arrived,
\* and an arrived fleet is not moved by further updates.
C33_ArrivalLiveness ==
    /\ <>(\A i \in 1..Len(ships) : ships[i].arrived)
    /\ [][\A i \in 1..Len(ships) :
              ships[i].arrived => ships'[i] = ships[i]]_vars


(***************************************************************************)
(* Properties of activate_recall, stated over the recorded call.           *)
(***************************************************************************)
\* The step is a successful activate_recall(side).
Recalled(side) ==
    /\ commands' # commands
    /\ last'.op = "activate_recall"
    /\ last'.args[1] = side
    /\ last'.result

\* C34: a successful activate_recall(side) resolves no arrival: every planet
\* keeps its owner, the battles_won and battles_lost of both sides and
\* tactical_penalties are unchanged, and the fleets of the other side stay in
\* the active set as they were, in their order.
C34_RecallFrame ==
    [][\A side \in Sides :
           Recalled(side) =>
               /\ \A p \in 1..Len(planets) : planets'[p].owner = planets[p].owner
               /\ Len(planets') = Len(planets)
               /\ player_stats_tracker' = player_stats_tracker
               /\ enemy_stats_tracker' = enemy_stats_tracker
               /\ tactical_penalties' = tactical_penalties
               /\ SelectSeq2(ships', LAMBDA s : s.owner # side)
                      = SelectSeq2(ships, LAMBDA s : s.owner # side)
               /\ \A i \in 1..Len(ships') : ships'[i].owner # side]_vars

C34_Witness ==
    /\ last.op = "activate_recall"
    /\ last.result
    /\ last.args[2] > 0
    /\ \E i \in 1..Len(ships) : ships[i].owner \in Sides \ {last.args[1]}


(***************************************************************************)
(* Properties of the planet set and of the ships in play.                  *)
(***************************************************************************)
\* The planets a side of the game holds.
Owned == {p \in 1..Len(planets) : planets[p].owner \in Sides}

\* C35: a planet owned by Player or Enemy never becomes Neutral again, so
\* the number of planets owned by Player plus the number owned by Enemy never
\* decreases; the planets are the ones map generation produced (the left
\* planets, their mirrors, the centre-line planet), and no step changes their
\* count, positions or radii.
C35_PlanetsStay ==
    /\ [](LET k == Len(gen.left_planets)
          IN  /\ Len(planets) = 2 * k + 1
              /\ \A i \in 1..k :
                     /\ planets[i].x = gen.left_planets[i].x
                     /\ planets[i].y = gen.left_planets[i].y
                     /\ planets[i].radius = gen.left_planets[i].radius
                     /\ planets[k + i].x = gen.width - gen.left_planets[i].x
                     /\ planets[k + i].y = gen.left_planets[i].y
                     /\ planets[k + i].radius = gen.left_planets[i].radius
              /\ planets[2 * k + 1].x = gen.width \div 2)
    /\ [][/\ \A p \in Owned : planets'[p].owner \in Sides
          /\ Cardinality({p \in 1..Len(planets') : planets'[p].owner \in Sides})
                 >= Cardinality(Owned)
          /\ Len(planets') = Len(planets)
          /\ \A p \in 1..Len(planets) :
                 /\ planets'[p].x = planets[p].x
                 /\ planets'[p].y = planets[p].y
                 /\ planets'[p].radius = planets[p].radius]_vars

C35_Witness ==
    /\ ticks > 0
    /\ \E i \in 1..Len(arrivals) :
           /\ arrivals[i].planet_before.owner = "Player"
           /\ arrivals[i].planet_after.owner = "Enemy"
           /\ arrivals[i].planet_after.ship_count = 0
    /\ Cardinality(Owned) = Len(planets)


\* C36: a successful activate_recall(side) leaves the side's total (ships on
\* its planets plus sizes of its fleets) unchanged and increases the
\* ship_count of no planet owned by the other side or by Neutral, also when
\* the origin planet of a fleet changed owner after the launch.
C36_RecallConserves ==
    [][\A side \in Sides :
           Recalled(side) =>
               /\ TotalShips(side)' = TotalShips(side)
               /\ \A p \in 1..Len(planets) :
                      planets[p].owner # side =>
                          planets'[p].ship_count <= planets[p].ship_count]_vars


\* The ships in play: on all planets and in all active fleets.
AllShips ==
    SeqSum([p \in 1..Len(planets) |-> planets[p].ship_count], Len(planets))
    + SeqSum([i \in 1..Len(ships) |-> ships[i].fleet_size], Len(ships))

\* The ships both sides have produced.
Made == player_stats_tracker.ships_produced + enemy_stats_tracker.ships_produced

\* The ships on the map a game starts with.
InitialShips ==
    LET m == Only(Maps)
    IN  SeqSum([p \in 1..Len(m) |-> m[p].ship_count], Len(m))

\* C37: ships are created by production only: in every reachable state the
\* ships on all planets plus the sizes of all fleets are at most the initial
\* sum plus the ships_produced of both sides; a step that is not an update
\* (a launch, a recall) leaves the sum unchanged, and an update adds to it at
\* most what it adds to ships_produced.
C37_OnlyProduction ==
    /\ [](AllShips <= InitialShips + Made)
    /\ [][/\ ~Ticked => AllShips' = AllShips /\ Made' = Made
          /\ AllShips' - AllShips <= Made' - Made]_vars

C37_Witness ==
    /\ Made > 0
    /\ AllShips < InitialShips + Made
    /\ \E i \in 1..Len(arrivals) :
           arrivals[i].planet_before.owner # arrivals[i].ship.owner
    /\ \E i \in 1..Len(ships) : ships[i].owner = "Enemy"


\* The fleets the step launched: the ones a click appended, and in an update
\* the ones that were not in the list when the update began.
Launched ==
    IF Ticked
    THEN ({ships'[i] : i \in 1..Len(ships')}
              \cup {Arrived[i].ship : i \in 1..Len(Arrived)})
         \ {Moved[j] : j \in 1..Len(ships)}
    ELSE {ships'[i] : i \in (Len(ships) + 1)..Len(ships')}

\* The planets as a launch of the step finds them: in an update, after the
\* abilities advanced and the opponent decided (its Recall may have credited
\* fleets to their origin planets); at a click, the planets before the step.
AtLaunch ==
    IF Ticked
    THEN MakeDecision([Game EXCEPT !.game_time = @ + TickDt,
                                   !.player_abilities = UpdateAbilities(@, TickDt),
                                   !.enemy_abilities = UpdateAbilities(@, TickDt)],
                      TickDt).game.planets
    ELSE planets

\* C38: every active fleet has size >= 1 and owner Player or Enemy; when a
\* fleet is launched (by the AI in an update, by the Player's click) its
\* origin planet is owned by the fleet's owner and holds at least the
\* fleet's size in ships; a click with a selected planet that is not
\* Player-owned launches nothing and clears the selection.
C38_FleetsLaunched ==
    /\ [](\A i \in 1..Len(ships) :
              ships[i].fleet_size >= 1 /\ ships[i].owner \in Sides)
    /\ [][/\ \A f \in Launched :
                 /\ f.fleet_size >= 1
                 /\ f.owner \in Sides
                 /\ AtLaunch[f.source_planet].owner = f.owner
                 /\ AtLaunch[f.source_planet].ship_count >= f.fleet_size
                 /\ Ticked => f.owner = "Enemy"
                 /\ ~Ticked => f.owner = "Player"
          /\ (/\ ~Ticked
              /\ selected_planet # None
              /\ planets[selected_planet].owner # "Player")
             => /\ ships' = ships
                /\ planets' = planets
                /\ selected_planet' = None]_vars

C38_Witness ==
    /\ last.op = "_handle_click"
    /\ last.args[1] # None
    /\ last.args[3] # None
    /\ last.args[4] = "Enemy"
    /\ selected_planet = None
    /\ \E i \in 1..Len(ships) : ships[i].owner = "Player"
    /\ \E i \in 1..Len(ships) : ships[i].owner = "Enemy"


\* C39: for every positive screen size and every map_size, the construction
\* of the game raises nothing, and the map it returns holds at least the
\* planet on the centre line.
C39_Degrades ==
    /\ last.op # "ValueError"
    /\ gen.done =>
           /\ Len(planets) >= 1
           /\ planets[Len(planets)].x = gen.width \div 2

====
